---- MODULE Spec2Model ----
(***************************************************************************)
(* Roadmap visualizer: document validation (models.Roadmap.Validate), the  *)
(* file-backed corpus (storage.FileStorage), the external-dependency       *)
(* resolver and reverse-dependents query (models.ValidateExternalDepend-   *)
(* encies, models.GetExternalDependents) and the HTTP handlers that drive  *)
(* them (handlers.RoadmapHandler).                                         *)
(*                                                                         *)
(* Strings are modelled as TLA+ strings and fmt.Sprintf / fmt.Errorf as    *)
(* string concatenation, so every error text is the text the code builds.  *)
(* A nil error is the string Nil.                                          *)
(***************************************************************************)
EXTENDS Naturals, Sequences, FiniteSets, TLC

VARIABLES
    meta,   \* data/meta/<id>.json : roadmap ID -> StoredRoadmap, or NoFile
    yaml,   \* data/yaml/<id>.yaml : the set of roadmap IDs with a YAML file
    used,   \* the roadmap IDs uuid.New() has handed out so far
    req,    \* the request being served (or the candidate being validated)
    resp,   \* the response written for req
    dependents, \* local `dependents` of the last GetRoadmapDependents request
    removed,    \* history: the stored roadmaps whose files req has removed
                \* (SpecStorage: the roadmap IDs Delete has removed so far)
    mu,     \* fs.mu, the sync.RWMutex of the FileStorage
    calls,  \* the storage call each goroutine is in, with the call's locals
    created \* history: roadmap ID -> the roadmap FileStorage.Create was given,
            \* from that Create to the Delete of the ID (SpecStorage: for
            \* every ID a Create has returned, also after its Delete)

\* The goroutines' side of the state; a request served to completion on its
\* own leaves it alone.
conc == <<mu, calls, created>>

vars == <<meta, yaml, used, req, resp, dependents, removed, mu, calls, created>>

(***************************************************************************)
(* Bounds.                                                                 *)
(***************************************************************************)
\* Size of the pool uuid.New() draws roadmap IDs from.
MaxIDs == 3
\* Longest item list of a candidate document handed to Roadmap.Validate.
MaxItems == 3

Nil == "<nil>"

(***************************************************************************)
(* models: RoadmapStatus, ExternalDependency, RoadmapItem, Roadmap.        *)
(***************************************************************************)
StatusPlanned == "planned"
StatusInProgress == "in-progress"
StatusCompleted == "completed"
StatusBlocked == "blocked"

\* ExternalDependency{RoadmapName, RoadmapID, ItemID, Criticality}
\* (Reason is free text that no code path reads).
ExternalDependency(name, id, item, crit) ==
    [RoadmapName |-> name, RoadmapID |-> id, ItemID |-> item, Criticality |-> crit]

\* RoadmapItem{ID, Name, Start, End, Status, Dependencies, ExternalDependencies}
\* (Description and Notes are free text that no code path reads).
RoadmapItem(id, name, start, end, status, deps, ext) ==
    [ID |-> id, Name |-> name, Start |-> start, End |-> end, Status |-> status,
     Dependencies |-> deps, ExternalDependencies |-> ext]

\* Roadmap{Name, ServiceLine, Items} (Owner and Notes are optional free text).
Roadmap(name, serviceLine, items) ==
    [Name |-> name, ServiceLine |-> serviceLine, Items |-> items]

ValidateStatus_AcceptsAny(status) ==
    Nil

ValidateStatus(status) ==
    IF status \in {StatusPlanned, StatusInProgress, StatusCompleted, StatusBlocked}
    THEN Nil
    ELSE "invalid status: " \o status
         \o " (must be planned, in-progress, completed, or blocked)"

\* The loop over r.ExternalDependencies of RoadmapItem.Validate, from the
\* i-th entry (1-based here, printed 0-based as the code prints it).
RECURSIVE ValidateExtDeps(_, _)
ValidateExtDeps(ext, i) ==
    IF i > Len(ext) THEN Nil
    ELSE LET extDep == ext[i]
             n == ToString(i - 1)
         IN  IF extDep.RoadmapName = "" /\ extDep.RoadmapID = ""
             THEN "external dependency " \o n
                  \o ": either roadmap name or roadmap_id is required"
             ELSE IF extDep.ItemID = ""
             THEN "external dependency " \o n \o ": item id is required"
             ELSE IF extDep.Criticality # ""
                     /\ extDep.Criticality \notin {"low", "medium", "high", "critical"}
             THEN "external dependency " \o n \o ": invalid criticality '"
                  \o extDep.Criticality
                  \o "' (must be low, medium, high, or critical)"
             ELSE ValidateExtDeps(ext, i + 1)

RoadmapItem_Validate(r) ==
    IF r.ID = "" THEN "item id is required"
    ELSE IF r.Name = "" THEN "item name is required"
    ELSE IF r.Start = "" THEN "item start is required"
    ELSE IF r.End = "" THEN "item end is required"
    ELSE LET err == ValidateStatus(r.Status)
         IN  IF err # Nil THEN err
             ELSE ValidateExtDeps(r.ExternalDependencies, 1)

\* A second loop that lets every internal dependency pass.
ValidateDependencyRefs_AcceptsAll(items, itemIDs, i, j) ==
    Nil

\* A second loop that also refuses an item that depends on itself.
RECURSIVE ValidateDependencyRefs_RejectsSelf(_, _, _, _)
ValidateDependencyRefs_RejectsSelf(items, itemIDs, i, j) ==
    IF i > Len(items) THEN Nil
    ELSE IF j > Len(items[i].Dependencies)
    THEN ValidateDependencyRefs_RejectsSelf(items, itemIDs, i + 1, 1)
    ELSE LET depID == items[i].Dependencies[j]
         IN  IF depID \notin itemIDs
             THEN "item " \o items[i].ID \o ": dependency " \o depID
                  \o " does not exist"
             ELSE IF depID = items[i].ID
             THEN "item " \o items[i].ID \o ": circular dependency"
             ELSE ValidateDependencyRefs_RejectsSelf(items, itemIDs, i, j + 1)

\* The second loop of Roadmap.Validate: every internal dependency of every
\* item names an ID in itemIDs.  (i, j) is the position reached.
RECURSIVE ValidateDependencyRefs(_, _, _, _)
ValidateDependencyRefs(items, itemIDs, i, j) ==
    IF i > Len(items) THEN Nil
    ELSE IF j > Len(items[i].Dependencies)
    THEN ValidateDependencyRefs(items, itemIDs, i + 1, 1)
    ELSE LET depID == items[i].Dependencies[j]
         IN  IF depID \notin itemIDs
             THEN "item " \o items[i].ID \o ": dependency " \o depID
                  \o " does not exist"
             ELSE ValidateDependencyRefs(items, itemIDs, i, j + 1)

\* A wrong order: every item's own checks first, duplicate IDs only after
\* the last item has passed them.
ValidateItems_ChecksThenDuplicates(items, itemIDs, i) ==
    LET bad == {k \in 1..Len(items) : RoadmapItem_Validate(items[k]) # Nil}
        first == CHOOSE k \in bad : \A m \in bad : k <= m
        dup == {k \in 1..Len(items) : \E m \in 1..(k - 1) : items[m].ID = items[k].ID}
        firstDup == CHOOSE k \in dup : \A m \in dup : k <= m
    IN  IF bad # {}
        THEN "item " \o ToString(first - 1) \o ": " \o RoadmapItem_Validate(items[first])
        ELSE IF dup # {}
        THEN "duplicate item id: " \o items[firstDup].ID
        ELSE ValidateDependencyRefs(items, {items[k].ID : k \in 1..Len(items)}, 1, 1)

\* A first loop without the duplicate check.
RECURSIVE ValidateItems_NoDuplicateCheck(_, _, _)
ValidateItems_NoDuplicateCheck(items, itemIDs, i) ==
    IF i > Len(items) THEN ValidateDependencyRefs(items, itemIDs, 1, 1)
    ELSE LET item == items[i]
             err == RoadmapItem_Validate(item)
         IN  IF err # Nil
             THEN "item " \o ToString(i - 1) \o ": " \o err
             ELSE ValidateItems_NoDuplicateCheck(items, itemIDs \cup {item.ID}, i + 1)

\* The first loop of Roadmap.Validate from the i-th item, itemIDs being the
\* IDs of the items before it; falls through to the second loop.
RECURSIVE ValidateItems(_, _, _)
ValidateItems(items, itemIDs, i) ==
    IF i > Len(items) THEN ValidateDependencyRefs(items, itemIDs, 1, 1)
    ELSE LET item == items[i]
             err == RoadmapItem_Validate(item)
         IN  IF err # Nil
             THEN "item " \o ToString(i - 1) \o ": " \o err
             ELSE IF item.ID \in itemIDs
             THEN "duplicate item id: " \o item.ID
             ELSE ValidateItems(items, itemIDs \cup {item.ID}, i + 1)

Roadmap_Validate(r) ==
    IF r.Name = "" THEN "roadmap name is required"
    ELSE IF r.ServiceLine = "" THEN "service_line is required"
    ELSE IF Len(r.Items) = 0 THEN "roadmap must have at least one item"
    ELSE ValidateItems(r.Items, {}, 1)

(***************************************************************************)
(* Candidate documents for Roadmap.Validate: every item list of at most    *)
(* MaxItems items over CandidateItems, under every combination of present  *)
(* and missing roadmap name and service line.                              *)
(***************************************************************************)
GoodItem(id) == RoadmapItem(id, "n", "2025-Q1", "2025-Q2", StatusPlanned, <<>>, <<>>)

CandidateItems ==
    { GoodItem("a"),
      GoodItem("b"),
      GoodItem(""),
      [GoodItem("") EXCEPT !.Name = ""],
      [GoodItem("a") EXCEPT !.Name = ""],
      [GoodItem("a") EXCEPT !.Start = ""],
      [GoodItem("b") EXCEPT !.End = ""],
      [GoodItem("a") EXCEPT !.End = "", !.Status = "done"],
      [GoodItem("b") EXCEPT !.Status = "done"],
      [GoodItem("b") EXCEPT !.Status = ""],
      [GoodItem("a") EXCEPT !.Status = StatusInProgress, !.Dependencies = <<"b">>],
      [GoodItem("b") EXCEPT !.Status = StatusCompleted, !.Dependencies = <<"b", "c">>],
      [GoodItem("b") EXCEPT !.Status = StatusBlocked,
          !.ExternalDependencies =
              << ExternalDependency("A", "", "a", ""),
                 ExternalDependency("", "r1", "a", "low"),
                 ExternalDependency("A", "r1", "z", "medium") >>],
      [GoodItem("b") EXCEPT !.ExternalDependencies =
              << ExternalDependency("A", "", "a", "critical"),
                 ExternalDependency("", "", "a", "high") >>],
      [GoodItem("a") EXCEPT !.ExternalDependencies =
              << ExternalDependency("A", "", "", "") >>],
      [GoodItem("a") EXCEPT !.ExternalDependencies =
              << ExternalDependency("", "r1", "a", "urgent") >>],
      [GoodItem("b") EXCEPT !.ExternalDependencies =
              << ExternalDependency("", "", "", "urgent") >>],
      [GoodItem("a") EXCEPT !.Status = "done", !.ExternalDependencies =
              << ExternalDependency("", "", "a", "") >>] }

NoResponse == [status |-> 0, error |-> Nil, body |-> <<>>]

\* A sync.RWMutex nobody holds: no writer (0), no readers.
Unlocked == [writer |-> 0, readers |-> {}]

InitValidate ==
    /\ meta = <<>>
    /\ yaml = {}
    /\ used = {}
    /\ \E name \in {"", "A"}, serviceLine \in {"", "Platform"}, n \in 0..MaxItems :
          \E items \in [1..n -> CandidateItems] :
              req = [op |-> "Validate", roadmap |-> Roadmap(name, serviceLine, items)]
    /\ resp = NoResponse
    /\ dependents = <<>>
    /\ removed = <<>>
    /\ mu = Unlocked
    /\ calls = <<>>
    /\ created = <<>>

\* r.Validate() on the candidate; the returned error is kept in resp.error.
ValidateCandidate ==
    /\ req.op = "Validate"
    /\ resp = NoResponse
    /\ resp' = [status |-> 1, error |-> Roadmap_Validate(req.roadmap), body |-> <<>>]
    /\ UNCHANGED <<meta, yaml, used, req, dependents, removed>>
    /\ UNCHANGED conc

NextValidate == ValidateCandidate

SpecValidate == InitValidate /\ [][NextValidate]_vars

(***************************************************************************)
(* models: ValidateExternalDependencies and GetExternalDependents.         *)
(* A Go map is a function on the keys set so far; a lookup of a missing    *)
(* key gives the zero value.  A *StoredRoadmap into the slice is the       *)
(* 1-based index of the element, 0 for nil.                                *)
(***************************************************************************)
StoredRoadmap(id, roadmap, fileName) ==
    [ID |-> id, Roadmap |-> roadmap, FileName |-> fileName]

\* m[key] = value
MapSet(m, key, value) ==
    [k \in DOMAIN m \cup {key} |-> IF k = key THEN value ELSE m[k]]
\* m[key] of a map to pointers
MapGet(m, key) == IF key \in DOMAIN m THEN m[key] ELSE 0

EmptyMap == [k \in {} |-> 0]

\* Lookup maps in which the first roadmap of a name keeps the name.
RECURSIVE BuildLookupMaps_FirstNameWins(_, _, _)
BuildLookupMaps_FirstNameWins(roadmaps, i, maps) ==
    IF i > Len(roadmaps) THEN maps
    ELSE LET rm == roadmaps[i]
         IN  BuildLookupMaps_FirstNameWins(roadmaps, i + 1,
                 [ roadmapsByName |->
                       IF rm.Roadmap.Name \in DOMAIN maps.roadmapsByName
                       THEN maps.roadmapsByName
                       ELSE MapSet(maps.roadmapsByName, rm.Roadmap.Name, i),
                   roadmapsByID |-> MapSet(maps.roadmapsByID, rm.ID, i),
                   itemsByRoadmap |->
                       MapSet(maps.itemsByRoadmap, rm.ID,
                              {rm.Roadmap.Items[j].ID : j \in 1..Len(rm.Roadmap.Items)}) ])

\* "Build lookup maps": the loop over roadmaps from the i-th element.
\* itemsByRoadmap[id] is kept as the set of item IDs mapped to true.
RECURSIVE BuildLookupMaps(_, _, _)
BuildLookupMaps(roadmaps, i, maps) ==
    IF i > Len(roadmaps) THEN maps
    ELSE LET rm == roadmaps[i]
         IN  BuildLookupMaps(roadmaps, i + 1,
                 [ roadmapsByName |-> MapSet(maps.roadmapsByName, rm.Roadmap.Name, i),
                   roadmapsByID |-> MapSet(maps.roadmapsByID, rm.ID, i),
                   itemsByRoadmap |->
                       MapSet(maps.itemsByRoadmap, rm.ID,
                              {rm.Roadmap.Items[j].ID : j \in 1..Len(rm.Roadmap.Items)}) ])

ExternalDependencyValidation(valid, roadmapItemID, dependencyDesc, error) ==
    [Valid |-> valid, RoadmapItemID |-> roadmapItemID,
     DependencyDesc |-> dependencyDesc, Error |-> error]

\* A resolver that falls back to the name when the ID matches nothing.
ValidateOne_NameFallback(roadmaps, maps, rm, item, extDep) ==
    LET byID == MapGet(maps.roadmapsByID, extDep.RoadmapID)
        targetRoadmap ==
            IF extDep.RoadmapID # "" /\ byID # 0 THEN byID
            ELSE MapGet(maps.roadmapsByName, extDep.RoadmapName)
        src == rm.Roadmap.Name \o ":" \o item.ID
        desc == extDep.RoadmapName \o ":" \o extDep.ItemID
    IN  IF targetRoadmap = 0
        THEN ExternalDependencyValidation(FALSE, src, desc,
                 IF extDep.RoadmapID # ""
                 THEN "roadmap with ID '" \o extDep.RoadmapID \o "' not found"
                 ELSE "roadmap named '" \o extDep.RoadmapName \o "' not found")
        ELSE IF extDep.ItemID \notin maps.itemsByRoadmap[roadmaps[targetRoadmap].ID]
        THEN ExternalDependencyValidation(FALSE, src, desc,
                 "item '" \o extDep.ItemID \o "' not found in roadmap '"
                 \o roadmaps[targetRoadmap].Roadmap.Name \o "'")
        ELSE ExternalDependencyValidation(TRUE, src, desc, "")

\* A resolver that reports every missing roadmap as a missing name.
ValidateOne_NameErrorOnly(roadmaps, maps, rm, item, extDep) ==
    LET targetRoadmap ==
            IF extDep.RoadmapID # ""
            THEN MapGet(maps.roadmapsByID, extDep.RoadmapID)
            ELSE MapGet(maps.roadmapsByName, extDep.RoadmapName)
        src == rm.Roadmap.Name \o ":" \o item.ID
        desc == extDep.RoadmapName \o ":" \o extDep.ItemID
    IN  IF targetRoadmap = 0
        THEN ExternalDependencyValidation(FALSE, src, desc,
                 "roadmap named '" \o extDep.RoadmapName \o "' not found")
        ELSE IF extDep.ItemID \notin maps.itemsByRoadmap[roadmaps[targetRoadmap].ID]
        THEN ExternalDependencyValidation(FALSE, src, desc,
                 "item '" \o extDep.ItemID \o "' not found in roadmap '"
                 \o roadmaps[targetRoadmap].Roadmap.Name \o "'")
        ELSE ExternalDependencyValidation(TRUE, src, desc, "")

\* A resolver that names the declared roadmap, not the resolved one, when
\* the item is missing.
ValidateOne_DeclaredNameInError(roadmaps, maps, rm, item, extDep) ==
    LET targetRoadmap ==
            IF extDep.RoadmapID # ""
            THEN MapGet(maps.roadmapsByID, extDep.RoadmapID)
            ELSE MapGet(maps.roadmapsByName, extDep.RoadmapName)
        src == rm.Roadmap.Name \o ":" \o item.ID
        desc == extDep.RoadmapName \o ":" \o extDep.ItemID
    IN  IF targetRoadmap = 0
        THEN ExternalDependencyValidation(FALSE, src, desc,
                 IF extDep.RoadmapID # ""
                 THEN "roadmap with ID '" \o extDep.RoadmapID \o "' not found"
                 ELSE "roadmap named '" \o extDep.RoadmapName \o "' not found")
        ELSE IF extDep.ItemID \notin maps.itemsByRoadmap[roadmaps[targetRoadmap].ID]
        THEN ExternalDependencyValidation(FALSE, src, desc,
                 "item '" \o extDep.ItemID \o "' not found in roadmap '"
                 \o extDep.RoadmapName \o "'")
        ELSE ExternalDependencyValidation(TRUE, src, desc, "")

\* The body of the innermost loop of ValidateExternalDependencies: the one
\* validation appended for extDep, declared on item of rm.
ValidateOne(roadmaps, maps, rm, item, extDep) ==
    LET validation ==
            ExternalDependencyValidation(FALSE,
                rm.Roadmap.Name \o ":" \o item.ID,
                extDep.RoadmapName \o ":" \o extDep.ItemID, "")
        targetRoadmap ==
            IF extDep.RoadmapID # ""
            THEN MapGet(maps.roadmapsByID, extDep.RoadmapID)
            ELSE MapGet(maps.roadmapsByName, extDep.RoadmapName)
    IN  IF extDep.RoadmapID # "" /\ targetRoadmap = 0
        THEN [validation EXCEPT !.Error =
                 "roadmap with ID '" \o extDep.RoadmapID \o "' not found"]
        ELSE IF extDep.RoadmapID = "" /\ targetRoadmap = 0
        THEN [validation EXCEPT !.Error =
                 "roadmap named '" \o extDep.RoadmapName \o "' not found"]
        ELSE IF extDep.ItemID \notin
                    MapGet(maps.itemsByRoadmap, roadmaps[targetRoadmap].ID)
        THEN [validation EXCEPT !.Error =
                 "item '" \o extDep.ItemID \o "' not found in roadmap '"
                 \o roadmaps[targetRoadmap].Roadmap.Name \o "'"]
        ELSE [validation EXCEPT !.Valid = TRUE]

\* A pass that gives up at the first dangling dependency.
RECURSIVE ValidateLoop_StopsAtInvalid(_, _, _, _, _, _)
ValidateLoop_StopsAtInvalid(roadmaps, maps, i, j, k, results) ==
    IF i > Len(roadmaps) THEN results
    ELSE IF j > Len(roadmaps[i].Roadmap.Items)
    THEN ValidateLoop_StopsAtInvalid(roadmaps, maps, i + 1, 1, 1, results)
    ELSE IF k > Len(roadmaps[i].Roadmap.Items[j].ExternalDependencies)
    THEN ValidateLoop_StopsAtInvalid(roadmaps, maps, i, j + 1, 1, results)
    ELSE LET v == ValidateOne(roadmaps, maps, roadmaps[i], roadmaps[i].Roadmap.Items[j],
                      roadmaps[i].Roadmap.Items[j].ExternalDependencies[k])
         IN  IF v.Valid
             THEN ValidateLoop_StopsAtInvalid(roadmaps, maps, i, j, k + 1,
                      Append(results, v))
             ELSE Append(results, v)

\* A pass that puts each validation ahead of the earlier ones.
RECURSIVE ValidateLoop_Prepends(_, _, _, _, _, _)
ValidateLoop_Prepends(roadmaps, maps, i, j, k, results) ==
    IF i > Len(roadmaps) THEN results
    ELSE IF j > Len(roadmaps[i].Roadmap.Items)
    THEN ValidateLoop_Prepends(roadmaps, maps, i + 1, 1, 1, results)
    ELSE IF k > Len(roadmaps[i].Roadmap.Items[j].ExternalDependencies)
    THEN ValidateLoop_Prepends(roadmaps, maps, i, j + 1, 1, results)
    ELSE ValidateLoop_Prepends(roadmaps, maps, i, j, k + 1,
             << ValidateOne(roadmaps, maps, roadmaps[i], roadmaps[i].Roadmap.Items[j],
                    roadmaps[i].Roadmap.Items[j].ExternalDependencies[k]) >>
             \o results)

\* "Validate each external dependency": the three nested loops from roadmap
\* i, item j, external dependency k, results being what is appended so far.
RECURSIVE ValidateLoop(_, _, _, _, _, _)
ValidateLoop(roadmaps, maps, i, j, k, results) ==
    IF i > Len(roadmaps) THEN results
    ELSE IF j > Len(roadmaps[i].Roadmap.Items)
    THEN ValidateLoop(roadmaps, maps, i + 1, 1, 1, results)
    ELSE IF k > Len(roadmaps[i].Roadmap.Items[j].ExternalDependencies)
    THEN ValidateLoop(roadmaps, maps, i, j + 1, 1, results)
    ELSE ValidateLoop(roadmaps, maps, i, j, k + 1,
             Append(results,
                 ValidateOne(roadmaps, maps, roadmaps[i], roadmaps[i].Roadmap.Items[j],
                     roadmaps[i].Roadmap.Items[j].ExternalDependencies[k])))

ValidateExternalDependencies(roadmaps) ==
    ValidateLoop(roadmaps,
        BuildLookupMaps(roadmaps, 1,
            [roadmapsByName |-> EmptyMap, roadmapsByID |-> EmptyMap,
             itemsByRoadmap |-> EmptyMap]),
        1, 1, 1, <<>>)

\* "Find the target roadmap": the first index whose ID is roadmapID, 0 if none.
RECURSIVE FindTargetRoadmap(_, _, _)
FindTargetRoadmap(roadmapID, allRoadmaps, i) ==
    IF i > Len(allRoadmaps) THEN 0
    ELSE IF allRoadmaps[i].ID = roadmapID THEN i
    ELSE FindTargetRoadmap(roadmapID, allRoadmaps, i + 1)

Dependent(rm, item, extDep) ==
    [RoadmapID |-> rm.ID, RoadmapName |-> rm.Roadmap.Name, ItemID |-> item.ID,
     ItemName |-> item.Name, DependsOn |-> extDep.ItemID]

\* A scan that does not skip the queried roadmap itself.
RECURSIVE DependentsLoop_ScansTarget(_, _, _, _, _, _)
DependentsLoop_ScansTarget(roadmapID, allRoadmaps, targetName, i, j, k) ==
    IF i > Len(allRoadmaps) THEN <<>>
    ELSE IF j > Len(allRoadmaps[i].Roadmap.Items)
    THEN DependentsLoop_ScansTarget(roadmapID, allRoadmaps, targetName, i + 1, 1, 1)
    ELSE IF k > Len(allRoadmaps[i].Roadmap.Items[j].ExternalDependencies)
    THEN DependentsLoop_ScansTarget(roadmapID, allRoadmaps, targetName, i, j + 1, 1)
    ELSE LET item == allRoadmaps[i].Roadmap.Items[j]
             extDep == item.ExternalDependencies[k]
             rest == DependentsLoop_ScansTarget(roadmapID, allRoadmaps, targetName,
                                                i, j, k + 1)
         IN  IF extDep.RoadmapID = roadmapID \/ extDep.RoadmapName = targetName
             THEN <<Dependent(allRoadmaps[i], item, extDep)>> \o rest
             ELSE rest

\* A scan that keeps a dependency only if the queried roadmap has the item.
RECURSIVE DependentsLoop_ChecksItem(_, _, _, _, _, _)
DependentsLoop_ChecksItem(roadmapID, allRoadmaps, targetName, i, j, k) ==
    IF i > Len(allRoadmaps) THEN <<>>
    ELSE IF allRoadmaps[i].ID = roadmapID
    THEN DependentsLoop_ChecksItem(roadmapID, allRoadmaps, targetName, i + 1, 1, 1)
    ELSE IF j > Len(allRoadmaps[i].Roadmap.Items)
    THEN DependentsLoop_ChecksItem(roadmapID, allRoadmaps, targetName, i + 1, 1, 1)
    ELSE IF k > Len(allRoadmaps[i].Roadmap.Items[j].ExternalDependencies)
    THEN DependentsLoop_ChecksItem(roadmapID, allRoadmaps, targetName, i, j + 1, 1)
    ELSE LET item == allRoadmaps[i].Roadmap.Items[j]
             extDep == item.ExternalDependencies[k]
             target == allRoadmaps[FindTargetRoadmap(roadmapID, allRoadmaps, 1)]
             rest == DependentsLoop_ChecksItem(roadmapID, allRoadmaps, targetName,
                                               i, j, k + 1)
         IN  IF /\ extDep.RoadmapID = roadmapID \/ extDep.RoadmapName = targetName
                /\ \E n \in 1..Len(target.Roadmap.Items) :
                       target.Roadmap.Items[n].ID = extDep.ItemID
             THEN <<Dependent(allRoadmaps[i], item, extDep)>> \o rest
             ELSE rest

\* A scan that matches an external dependency by its target ID alone.
RECURSIVE DependentsLoop_ByIDOnly(_, _, _, _, _, _)
DependentsLoop_ByIDOnly(roadmapID, allRoadmaps, targetName, i, j, k) ==
    IF i > Len(allRoadmaps) THEN <<>>
    ELSE IF allRoadmaps[i].ID = roadmapID
    THEN DependentsLoop_ByIDOnly(roadmapID, allRoadmaps, targetName, i + 1, 1, 1)
    ELSE IF j > Len(allRoadmaps[i].Roadmap.Items)
    THEN DependentsLoop_ByIDOnly(roadmapID, allRoadmaps, targetName, i + 1, 1, 1)
    ELSE IF k > Len(allRoadmaps[i].Roadmap.Items[j].ExternalDependencies)
    THEN DependentsLoop_ByIDOnly(roadmapID, allRoadmaps, targetName, i, j + 1, 1)
    ELSE LET item == allRoadmaps[i].Roadmap.Items[j]
             extDep == item.ExternalDependencies[k]
             rest == DependentsLoop_ByIDOnly(roadmapID, allRoadmaps, targetName,
                                             i, j, k + 1)
         IN  IF extDep.RoadmapID = roadmapID
             THEN <<Dependent(allRoadmaps[i], item, extDep)>> \o rest
             ELSE rest

\* "Find items that depend on this roadmap": the three nested loops from
\* roadmap i, item j, external dependency k; the dependents appended from
\* there on, in order.
RECURSIVE DependentsLoop(_, _, _, _, _, _)
DependentsLoop(roadmapID, allRoadmaps, targetName, i, j, k) ==
    IF i > Len(allRoadmaps) THEN <<>>
    ELSE IF allRoadmaps[i].ID = roadmapID
    THEN DependentsLoop(roadmapID, allRoadmaps, targetName, i + 1, 1, 1)
    ELSE IF j > Len(allRoadmaps[i].Roadmap.Items)
    THEN DependentsLoop(roadmapID, allRoadmaps, targetName, i + 1, 1, 1)
    ELSE IF k > Len(allRoadmaps[i].Roadmap.Items[j].ExternalDependencies)
    THEN DependentsLoop(roadmapID, allRoadmaps, targetName, i, j + 1, 1)
    ELSE LET item == allRoadmaps[i].Roadmap.Items[j]
             extDep == item.ExternalDependencies[k]
             rest == DependentsLoop(roadmapID, allRoadmaps, targetName, i, j, k + 1)
         IN  IF extDep.RoadmapID = roadmapID \/ extDep.RoadmapName = targetName
             THEN <<Dependent(allRoadmaps[i], item, extDep)>> \o rest
             ELSE rest

\* A query that scans for the ID even when no roadmap bears it.
GetExternalDependents_NoTargetCheck(roadmapID, allRoadmaps) ==
    LET targetRoadmap == FindTargetRoadmap(roadmapID, allRoadmaps, 1)
    IN  DependentsLoop(roadmapID, allRoadmaps,
            IF targetRoadmap = 0 THEN "" ELSE allRoadmaps[targetRoadmap].Roadmap.Name,
            1, 1, 1)

\* A query whose dependents slice is declared outside the function: the
\* edges of a call are appended to those the call before it returned.
GetExternalDependents_KeepsDependents(roadmapID, allRoadmaps) ==
    LET targetRoadmap == FindTargetRoadmap(roadmapID, allRoadmaps, 1)
        kept == IF Len(dependents) < 8 THEN dependents ELSE <<>>
    IN  IF targetRoadmap = 0 THEN kept
        ELSE kept \o DependentsLoop(roadmapID, allRoadmaps,
                         allRoadmaps[targetRoadmap].Roadmap.Name, 1, 1, 1)

GetExternalDependents(roadmapID, allRoadmaps) ==
    LET targetRoadmap == FindTargetRoadmap(roadmapID, allRoadmaps, 1)
    IN  IF targetRoadmap = 0 THEN <<>>
        ELSE DependentsLoop(roadmapID, allRoadmaps,
                 allRoadmaps[targetRoadmap].Roadmap.Name, 1, 1, 1)

(***************************************************************************)
(* storage.FileStorage over data/yaml and data/meta, and the handlers of   *)
(* handlers.RoadmapHandler.  Each request is served to completion before   *)
(* the next one starts.                                                    *)
(***************************************************************************)
\* The IDs uuid.New() can return; IDAt(1) < IDAt(2) < ... as file names.
IDAt(i) == "r" \o ToString(i)
RoadmapIDs == {IDAt(i) : i \in 1..MaxIDs}

\* FileStorage.List: the metadata files from the i-th file name on, in
\* os.ReadDir order (sorted by file name), each unmarshalled.
RECURSIVE List(_, _)
List(m, i) ==
    IF i > MaxIDs THEN <<>>
    ELSE (IF IDAt(i) \in DOMAIN m THEN <<m[IDAt(i)]>> ELSE <<>>) \o List(m, i + 1)

\* FileStorage.Get: the stored roadmap and a nil error, or "roadmap not found".
Get(m, id) ==
    IF id \in DOMAIN m THEN [stored |-> <<m[id]>>, err |-> Nil]
    ELSE [stored |-> <<>>, err |-> "roadmap not found"]

\* parser.ParseRoadmap on a request body.  A body is the document it
\* unmarshals to, or one that is no YAML at all.
ParseRoadmap(data) ==
    IF ~data.yaml THEN "failed to parse YAML: yaml: unmarshal errors"
    ELSE LET err == Roadmap_Validate(data.roadmap)
         IN  IF err # Nil THEN "validation failed: " \o err ELSE Nil

Response(status, error, body) == [status |-> status, error |-> error, body |-> body]

StatusOK == 200
StatusCreated == 201
StatusNoContent == 204
StatusBadRequest == 400
StatusNotFound == 404
StatusInternalServerError == 500

\* Request bodies of the upload: documents that pass validation ...
Item(id, deps, ext) ==
    RoadmapItem(id, "n", "2025-Q1", "2025-Q2", StatusPlanned, deps, ext)

ValidDocuments ==
    { Roadmap("A", "Platform", << Item("a", <<>>, <<>>) >>),
      Roadmap("B", "Data",
          << Item("a", <<>>, << ExternalDependency("", "r1", "a", "") >>) >>),
      Roadmap("B", "Data",
          << Item("b", <<>>, << ExternalDependency("A", "r2", "a", "high") >>) >>),
      Roadmap("B", "Data",
          << Item("a", <<>>, << ExternalDependency("Ghost", "", "a", ""),
                                ExternalDependency("B", "r1", "z", "") >>),
             Item("b", <<>>, << ExternalDependency("A", "", "b", "") >>) >>),
      Roadmap("A", "Platform",
          << Item("a", <<"b">>, << ExternalDependency("B", "", "a", ""),
                                   ExternalDependency("A", "", "b", "low") >>),
             Item("b", <<"a", "b">>, <<>>) >>) }

\* ... a document that does not ...
InvalidDocuments ==
    { Roadmap("A", "Platform", << Item("a", <<>>, <<>>), Item("a", <<"c">>, <<>>) >>) }

\* ... and a body that is no YAML.
UploadBodies ==
    { [yaml |-> TRUE, roadmap |-> r] : r \in ValidDocuments \cup InvalidDocuments }
    \cup { [yaml |-> FALSE, roadmap |-> Roadmap("", "", <<>>)] }

\* The {id} of a request path: a uuid, stored or not, or nothing.
PathIDs == RoadmapIDs \cup {""}

Init ==
    /\ meta = EmptyMap
    /\ yaml = {}
    /\ used = {}
    /\ req = [op |-> "none"]
    /\ resp = NoResponse
    /\ dependents = <<>>
    /\ removed = <<>>
    /\ mu = Unlocked
    /\ calls = <<>>
    /\ created = <<>>

\* What FileStorage.Create returns when os.WriteFile fails on the YAML file.
WriteFailed == "failed to write yaml file: input/output error"

\* A store that files a roadmap under the ID of a stored roadmap of the same
\* name, if there is one: the upload replaces that roadmap.
CreateRoadmap_KeyedByName(data, id, fails) ==
    /\ id \in RoadmapIDs \ used
    /\ UNCHANGED conc
    /\ req' = [op |-> "CreateRoadmap", body |-> data]
    /\ dependents' = <<>>
    /\ removed' = <<>>
    /\ LET err == ParseRoadmap(data)
           same == {k \in DOMAIN meta : meta[k].Roadmap.Name = data.roadmap.Name}
           key == IF same = {} THEN id ELSE CHOOSE k \in same : TRUE
           stored == StoredRoadmap(key, data.roadmap, "uploaded.yaml")
       IN  IF err # Nil
           THEN /\ resp' = Response(StatusBadRequest, "Invalid roadmap: " \o err, <<>>)
                /\ UNCHANGED <<meta, yaml, used>>
           ELSE IF fails
           THEN /\ used' = used \cup {id}
                /\ resp' = Response(StatusInternalServerError,
                               "Failed to store roadmap: " \o WriteFailed, <<>>)
                /\ UNCHANGED <<meta, yaml>>
           ELSE /\ used' = used \cup {id}
                /\ yaml' = yaml \cup {key}
                /\ meta' = MapSet(meta, key, stored)
                /\ resp' = Response(StatusCreated, Nil, stored)

\* POST /api/roadmaps: ParseRoadmap, then FileStorage.Create, whose
\* uuid.New() returns an ID never returned before.  fails tells whether
\* os.WriteFile fails in this Create; nothing is left behind if it does.
CreateRoadmap(data, id, fails) ==
    /\ id \in RoadmapIDs \ used
    /\ UNCHANGED conc
    /\ req' = [op |-> "CreateRoadmap", body |-> data]
    /\ dependents' = <<>>
    /\ removed' = <<>>
    /\ LET err == ParseRoadmap(data)
           stored == StoredRoadmap(id, data.roadmap, "uploaded.yaml")
       IN  IF err # Nil
           THEN /\ resp' = Response(StatusBadRequest, "Invalid roadmap: " \o err, <<>>)
                /\ UNCHANGED <<meta, yaml, used>>
           ELSE IF fails
           THEN /\ used' = used \cup {id}
                /\ resp' = Response(StatusInternalServerError,
                               "Failed to store roadmap: " \o WriteFailed, <<>>)
                /\ UNCHANGED <<meta, yaml>>
           ELSE /\ used' = used \cup {id}
                /\ yaml' = yaml \cup {id}
                /\ meta' = MapSet(meta, id, stored)
                /\ resp' = Response(StatusCreated, Nil, stored)

\* A Delete that removes the YAML file and leaves the metadata file behind.
DeleteRoadmap_KeepsMetadata(id) ==
    /\ UNCHANGED conc
    /\ req' = [op |-> "DeleteRoadmap", id |-> id]
    /\ dependents' = <<>>
    /\ UNCHANGED <<used, meta>>
    /\ IF id = ""
       THEN /\ resp' = Response(StatusBadRequest, "Invalid roadmap ID", <<>>)
            /\ removed' = <<>>
            /\ UNCHANGED yaml
       ELSE IF id \notin DOMAIN meta
       THEN /\ resp' = Response(StatusNotFound, "Roadmap not found", <<>>)
            /\ removed' = <<>>
            /\ UNCHANGED yaml
       ELSE /\ yaml' = yaml \ {id}
            /\ removed' = <<meta[id]>>
            /\ resp' = Response(StatusNoContent, Nil, <<>>)

\* DELETE /api/roadmaps/{id}: FileStorage.Delete removes data/yaml/<id>.yaml
\* and data/meta/<id>.json when the metadata file exists.
DeleteRoadmap(id) ==
    /\ UNCHANGED conc
    /\ req' = [op |-> "DeleteRoadmap", id |-> id]
    /\ dependents' = <<>>
    /\ UNCHANGED used
    /\ IF id = ""
       THEN /\ resp' = Response(StatusBadRequest, "Invalid roadmap ID", <<>>)
            /\ removed' = <<>>
            /\ UNCHANGED <<meta, yaml>>
       ELSE IF id \notin DOMAIN meta
       THEN /\ resp' = Response(StatusNotFound, "Roadmap not found", <<>>)
            /\ removed' = <<>>
            /\ UNCHANGED <<meta, yaml>>
       ELSE /\ yaml' = yaml \ {id}
            /\ meta' = [k \in DOMAIN meta \ {id} |-> meta[k]]
            /\ removed' = <<meta[id]>>
            /\ resp' = Response(StatusNoContent, Nil, <<>>)

\* A handler that answers from the query alone, without the closing Get.
GetRoadmapDependents_NoGet(id) ==
    /\ UNCHANGED conc
    /\ req' = [op |-> "GetRoadmapDependents", id |-> id]
    /\ removed' = <<>>
    /\ UNCHANGED <<meta, yaml, used>>
    /\ IF id = ""
       THEN /\ resp' = Response(StatusBadRequest, "Invalid roadmap ID", <<>>)
            /\ dependents' = <<>>
       ELSE LET found == GetExternalDependents(id, List(meta, 1))
            IN  /\ dependents' = found
                /\ resp' = Response(StatusOK, Nil,
                               [roadmap_id |-> id, roadmap_name |-> "",
                                dependents |-> found, count |-> Len(found)])

\* GET /api/roadmaps/{id}/dependents: List, GetExternalDependents, then Get.
GetRoadmapDependents(id) ==
    /\ UNCHANGED conc
    /\ req' = [op |-> "GetRoadmapDependents", id |-> id]
    /\ removed' = <<>>
    /\ UNCHANGED <<meta, yaml, used>>
    /\ IF id = ""
       THEN /\ resp' = Response(StatusBadRequest, "Invalid roadmap ID", <<>>)
            /\ dependents' = <<>>
       ELSE LET allRoadmaps == List(meta, 1)
                found == GetExternalDependents(id, allRoadmaps)
                got == Get(meta, id)
            IN  /\ dependents' = found
                /\ resp' = IF got.err # Nil
                           THEN Response(StatusNotFound, "Roadmap not found", <<>>)
                           ELSE Response(StatusOK, Nil,
                                    [roadmap_id |-> got.stored[1].ID,
                                     roadmap_name |-> got.stored[1].Roadmap.Name,
                                     dependents |-> found,
                                     count |-> Len(found)])

\* A handler whose results slice outlives the request: a pass that follows
\* a pass appends to the results of that one.
ValidateDependencies_KeepsResults ==
    /\ UNCHANGED conc
    /\ req' = [op |-> "ValidateDependencies"]
    /\ dependents' = <<>>
    /\ removed' = <<>>
    /\ UNCHANGED <<meta, yaml, used>>
    /\ LET allRoadmaps == List(meta, 1)
           kept == IF req.op = "ValidateDependencies" /\ Len(resp.body.results) < 12
                   THEN resp.body.results ELSE <<>>
           validations == kept \o ValidateExternalDependencies(allRoadmaps)
           validCount == Cardinality({k \in 1..Len(validations) : validations[k].Valid})
           invalidCount == Cardinality({k \in 1..Len(validations) : ~validations[k].Valid})
       IN  resp' = Response(StatusOK, Nil,
                       [total |-> Len(validations), valid |-> validCount,
                        invalid |-> invalidCount, results |-> validations])

\* GET /api/dependencies/validate: List, then ValidateExternalDependencies.
ValidateDependencies ==
    /\ UNCHANGED conc
    /\ req' = [op |-> "ValidateDependencies"]
    /\ dependents' = <<>>
    /\ removed' = <<>>
    /\ UNCHANGED <<meta, yaml, used>>
    /\ LET allRoadmaps == List(meta, 1)
           validations == ValidateExternalDependencies(allRoadmaps)
           validCount == Cardinality({k \in 1..Len(validations) : validations[k].Valid})
           invalidCount == Cardinality({k \in 1..Len(validations) : ~validations[k].Valid})
       IN  resp' = Response(StatusOK, Nil,
                       [total |-> Len(validations), valid |-> validCount,
                        invalid |-> invalidCount, results |-> validations])

\* The requests of this specification, on a file system that works.
Next ==
    \/ \E data \in UploadBodies, id \in RoadmapIDs : CreateRoadmap(data, id, FALSE)
    \/ \E id \in PathIDs : DeleteRoadmap(id)
    \/ \E id \in PathIDs : GetRoadmapDependents(id)
    \/ ValidateDependencies

Spec == Init /\ [][Next]_vars

(***************************************************************************)
(* Ingestion: the single and the batch upload, deletion and the reads of   *)
(* the corpus, on a file system whose writes may fail.                     *)
(***************************************************************************)
\* A decoder loop that passes over a document it cannot parse or that fails
\* validation and goes on with the next one.
RECURSIVE ParseDocuments_SkipsInvalid(_, _, _)
ParseDocuments_SkipsInvalid(data, i, roadmaps) ==
    IF i > Len(data)
    THEN IF Len(roadmaps) = 0
         THEN [roadmaps |-> <<>>, err |-> "no roadmaps found in file"]
         ELSE [roadmaps |-> roadmaps, err |-> Nil]
    ELSE IF ~data[i].yaml \/ Roadmap_Validate(data[i].roadmap) # Nil
    THEN ParseDocuments_SkipsInvalid(data, i + 1, roadmaps)
    ELSE ParseDocuments_SkipsInvalid(data, i + 1, Append(roadmaps, data[i].roadmap))

\* The decoder loop of parser.ParseMultipleRoadmaps from the i-th document
\* of the body, roadmaps being the documents appended so far.
RECURSIVE ParseDocuments(_, _, _)
ParseDocuments(data, i, roadmaps) ==
    IF i > Len(data)
    THEN IF Len(roadmaps) = 0
         THEN [roadmaps |-> <<>>, err |-> "no roadmaps found in file"]
         ELSE [roadmaps |-> roadmaps, err |-> Nil]
    ELSE IF ~data[i].yaml
    THEN [roadmaps |-> <<>>,
          err |-> "failed to parse YAML document " \o ToString(Len(roadmaps) + 1)
                  \o ": yaml: unmarshal errors"]
    ELSE LET err == Roadmap_Validate(data[i].roadmap)
         IN  IF err # Nil
             THEN [roadmaps |-> <<>>,
                   err |-> "validation failed for roadmap "
                           \o ToString(Len(roadmaps) + 1)
                           \o " (" \o data[i].roadmap.Name \o "): " \o err]
             ELSE ParseDocuments(data, i + 1, Append(roadmaps, data[i].roadmap))

\* parser.ParseMultipleRoadmaps on a request body, a sequence of documents.
ParseMultipleRoadmaps(data) == ParseDocuments(data, 1, <<>>)

\* fmt.Sprintf("%s-part%d.yaml", strings.TrimSuffix("uploaded.yaml", ".yaml"), i+1)
PartFileName(i) == "uploaded-part" \o ToString(i) \o ".yaml"

\* The metadata files after FileStorage.Create has stored the first n
\* roadmaps under the first n IDs.
RECURSIVE StoreEach(_, _, _, _)
StoreEach(m, roadmaps, ids, n) ==
    IF n = 0 THEN m
    ELSE MapSet(StoreEach(m, roadmaps, ids, n - 1), ids[n],
                StoredRoadmap(ids[n], roadmaps[n], PartFileName(n)))

\* A batch upload that keeps the documents ahead of the first one that
\* fails to parse or to validate.
CreateMultipleRoadmaps_StoresValidPrefix(data, ids, failAt) ==
    /\ \A i \in 1..Len(ids) : ids[i] \in RoadmapIDs \ used
    /\ \A i, j \in 1..Len(ids) : i # j => ids[i] # ids[j]
    /\ UNCHANGED conc
    /\ req' = [op |-> "CreateMultipleRoadmaps", body |-> data]
    /\ dependents' = <<>>
    /\ removed' = <<>>
    /\ failAt = 0
    /\ LET parsed == ParseMultipleRoadmaps(data)
           good == {n \in 0..Len(data) :
                       \A i \in 1..n : data[i].yaml /\ Roadmap_Validate(data[i].roadmap) = Nil}
           n == CHOOSE k \in good : \A m \in good : m <= k
           roadmaps == [i \in 1..n |-> data[i].roadmap]
       IN  /\ Len(ids) = n
           /\ used' = used \cup {ids[i] : i \in 1..n}
           /\ yaml' = yaml \cup {ids[i] : i \in 1..n}
           /\ meta' = StoreEach(meta, roadmaps, ids, n)
           /\ resp' = IF parsed.err # Nil
                      THEN Response(StatusBadRequest,
                               "Invalid roadmap file: " \o parsed.err, <<>>)
                      ELSE Response(StatusCreated, Nil,
                               [count |-> n,
                                roadmaps |-> [i \in 1..n |-> meta'[ids[i]]]])

\* A batch upload that removes what it has stored when a Create fails.
CreateMultipleRoadmaps_RollsBack(data, ids, failAt) ==
    /\ \A i \in 1..Len(ids) : ids[i] \in RoadmapIDs \ used
    /\ \A i, j \in 1..Len(ids) : i # j => ids[i] # ids[j]
    /\ failAt \in {0, Len(ids)}
    /\ UNCHANGED conc
    /\ req' = [op |-> "CreateMultipleRoadmaps", body |-> data]
    /\ dependents' = <<>>
    /\ removed' = <<>>
    /\ LET parsed == ParseMultipleRoadmaps(data)
           roadmaps == parsed.roadmaps
           n == IF failAt = 0 THEN Len(roadmaps) ELSE 0
       IN  IF parsed.err # Nil
           THEN /\ ids = <<>>
                /\ resp' = Response(StatusBadRequest,
                               "Invalid roadmap file: " \o parsed.err, <<>>)
                /\ UNCHANGED <<meta, yaml, used>>
           ELSE /\ failAt \in 0..Len(roadmaps)
                /\ Len(ids) = (IF failAt = 0 THEN Len(roadmaps) ELSE failAt)
                /\ used' = used \cup {ids[i] : i \in 1..Len(ids)}
                /\ yaml' = yaml \cup {ids[i] : i \in 1..n}
                /\ meta' = StoreEach(meta, roadmaps, ids, n)
                /\ resp' = IF failAt # 0
                           THEN Response(StatusInternalServerError,
                                    "Failed to store roadmap " \o ToString(failAt)
                                    \o " (" \o roadmaps[failAt].Name \o "): "
                                    \o WriteFailed, <<>>)
                           ELSE Response(StatusCreated, Nil,
                                    [count |-> n,
                                     roadmaps |-> [i \in 1..n |-> meta'[ids[i]]]])

\* POST /api/roadmaps/batch: ParseMultipleRoadmaps, then one
\* FileStorage.Create per roadmap in order.  ids are the IDs uuid.New()
\* returns to these Creates, never returned before; failAt is the Create
\* in which os.WriteFile fails (0: none does) and the last one made.
CreateMultipleRoadmaps(data, ids, failAt) ==
    /\ \A i \in 1..Len(ids) : ids[i] \in RoadmapIDs \ used
    /\ \A i, j \in 1..Len(ids) : i # j => ids[i] # ids[j]
    /\ failAt \in {0, Len(ids)}
    /\ UNCHANGED conc
    /\ req' = [op |-> "CreateMultipleRoadmaps", body |-> data]
    /\ dependents' = <<>>
    /\ removed' = <<>>
    /\ LET parsed == ParseMultipleRoadmaps(data)
           roadmaps == parsed.roadmaps
           n == IF failAt = 0 THEN Len(roadmaps) ELSE failAt - 1
       IN  IF parsed.err # Nil
           THEN /\ ids = <<>>
                /\ resp' = Response(StatusBadRequest,
                               "Invalid roadmap file: " \o parsed.err, <<>>)
                /\ UNCHANGED <<meta, yaml, used>>
           ELSE /\ failAt \in 0..Len(roadmaps)
                /\ Len(ids) = (IF failAt = 0 THEN Len(roadmaps) ELSE failAt)
                /\ used' = used \cup {ids[i] : i \in 1..Len(ids)}
                /\ yaml' = yaml \cup {ids[i] : i \in 1..n}
                /\ meta' = StoreEach(meta, roadmaps, ids, n)
                /\ resp' = IF failAt # 0
                           THEN Response(StatusInternalServerError,
                                    "Failed to store roadmap " \o ToString(failAt)
                                    \o " (" \o roadmaps[failAt].Name \o "): "
                                    \o WriteFailed, <<>>)
                           ELSE Response(StatusCreated, Nil,
                                    [count |-> n,
                                     roadmaps |-> [i \in 1..n |-> meta'[ids[i]]]])

\* GET /api/roadmaps: FileStorage.List.
ListRoadmaps ==
    /\ UNCHANGED conc
    /\ req' = [op |-> "ListRoadmaps"]
    /\ dependents' = <<>>
    /\ removed' = <<>>
    /\ UNCHANGED <<meta, yaml, used>>
    /\ resp' = Response(StatusOK, Nil, List(meta, 1))

\* GET /api/roadmaps/{id}: FileStorage.Get.
GetRoadmap(id) ==
    /\ UNCHANGED conc
    /\ req' = [op |-> "GetRoadmap", id |-> id]
    /\ dependents' = <<>>
    /\ removed' = <<>>
    /\ UNCHANGED <<meta, yaml, used>>
    /\ IF id = ""
       THEN resp' = Response(StatusBadRequest, "Invalid roadmap ID", <<>>)
       ELSE LET got == Get(meta, id)
            IN  resp' = IF got.err # Nil
                        THEN Response(StatusNotFound, "Roadmap not found", <<>>)
                        ELSE Response(StatusOK, Nil, got.stored[1])

\* Documents of the ingestion requests: two that pass validation ...
DocA == Roadmap("A", "Platform", << Item("a", <<>>, <<>>) >>)
DocB ==
    Roadmap("B", "Data",
        << Item("a", <<"b">>, << ExternalDependency("A", "", "a", "") >>),
           Item("b", <<>>, <<>>) >>)
\* ... one whose only fault is a repeated item ID, one whose only fault is
\* an internal dependency on no item, one with an item without a name ...
DocDuplicate ==
    Roadmap("A", "Platform", << Item("a", <<>>, <<>>), Item("a", <<>>, <<>>) >>)
DocDangling ==
    Roadmap("B", "Data", << Item("a", <<"c">>, <<>>), Item("b", <<"a">>, <<>>) >>)
DocNoName ==
    Roadmap("A", "Platform", << [Item("a", <<>>, <<>>) EXCEPT !.Name = ""] >>)

Document(r) == [yaml |-> TRUE, roadmap |-> r]
\* ... and a document that is no YAML.
NoYAML == [yaml |-> FALSE, roadmap |-> Roadmap("", "", <<>>)]

\* Bodies of the single upload.
IngestBodies ==
    { Document(DocA), Document(DocDuplicate), Document(DocDangling),
      Document(DocNoName), NoYAML }

\* Bodies of the batch upload: no document, one, two that pass, and one
\* that passes ahead of or behind one that does not.
BatchBodies ==
    { <<>>,
      <<Document(DocA)>>,
      <<Document(DocA), Document(DocB)>>,
      <<Document(DocA), Document(DocDuplicate)>>,
      <<Document(DocDangling), Document(DocA)>>,
      <<Document(DocNoName), Document(DocA)>>,
      <<Document(DocA), NoYAML>> }

\* The IDs uuid.New() can return to the Creates of one batch upload:
\* distinct, and none returned before.
BatchIDs ==
    {<<>>} \cup {<<i>> : i \in RoadmapIDs \ used}
    \cup {ids \in (RoadmapIDs \ used) \X (RoadmapIDs \ used) : ids[1] # ids[2]}

NextIngest ==
    \/ \E id \in RoadmapIDs \ used, data \in IngestBodies, fails \in BOOLEAN :
          CreateRoadmap(data, id, fails)
    \/ \E ids \in BatchIDs : \E failAt \in {0, Len(ids)}, data \in BatchBodies :
          CreateMultipleRoadmaps(data, ids, failAt)
    \/ \E id \in PathIDs : DeleteRoadmap(id)
    \/ ListRoadmaps
    \/ \E id \in PathIDs : GetRoadmap(id)
    \/ ValidateDependencies

SpecIngest == Init /\ [][NextIngest]_vars

(***************************************************************************)
(* FileStorage under concurrent requests.  A goroutine serves one request  *)
(* at a time through the calls of FileStorage, step by step: taking fs.mu, *)
(* each read or write of a file, releasing fs.mu on return.  A metadata    *)
(* file holds the JSON text json.Marshal gives for the StoredRoadmap,      *)
(* modelled as the JSON object: a function from the keys written to their  *)
(* values, keys tagged omitempty being left out when the value is empty.   *)
(* os.WriteFile and os.Remove are taken to succeed.                        *)
(***************************************************************************)
Goroutines == {1, 2}

\* json.Marshal of an ExternalDependency, a RoadmapItem, a Roadmap, a StoredRoadmap.
MarshalExternalDependency(d) ==
    [k \in {"roadmap", "item"}
           \cup (IF d.RoadmapID # "" THEN {"roadmap_id"} ELSE {})
           \cup (IF d.Criticality # "" THEN {"criticality"} ELSE {}) |->
        CASE k = "roadmap" -> d.RoadmapName
          [] k = "item" -> d.ItemID
          [] k = "roadmap_id" -> d.RoadmapID
          [] k = "criticality" -> d.Criticality]

\* A marshaller whose omitempty drops a list of one element as well.
MarshalItem_OmitsSingletons(it) ==
    [k \in {"id", "name", "start", "end", "status"}
           \cup (IF Len(it.Dependencies) > 1 THEN {"dependencies"} ELSE {})
           \cup (IF Len(it.ExternalDependencies) > 1
                 THEN {"external_dependencies"} ELSE {}) |->
        CASE k = "id" -> it.ID
          [] k = "name" -> it.Name
          [] k = "start" -> it.Start
          [] k = "end" -> it.End
          [] k = "status" -> it.Status
          [] k = "dependencies" -> it.Dependencies
          [] k = "external_dependencies" ->
                 [n \in DOMAIN it.ExternalDependencies |->
                     MarshalExternalDependency(it.ExternalDependencies[n])]]

MarshalItem(it) ==
    [k \in {"id", "name", "start", "end", "status"}
           \cup (IF Len(it.Dependencies) > 0 THEN {"dependencies"} ELSE {})
           \cup (IF Len(it.ExternalDependencies) > 0
                 THEN {"external_dependencies"} ELSE {}) |->
        CASE k = "id" -> it.ID
          [] k = "name" -> it.Name
          [] k = "start" -> it.Start
          [] k = "end" -> it.End
          [] k = "status" -> it.Status
          [] k = "dependencies" -> it.Dependencies
          [] k = "external_dependencies" ->
                 [n \in DOMAIN it.ExternalDependencies |->
                     MarshalExternalDependency(it.ExternalDependencies[n])]]

MarshalRoadmap(r) ==
    [k \in {"name", "service_line", "items"} |->
        CASE k = "name" -> r.Name
          [] k = "service_line" -> r.ServiceLine
          [] k = "items" -> [n \in DOMAIN r.Items |-> MarshalItem(r.Items[n])]]

Marshal(stored) ==
    [k \in {"id", "roadmap", "file_name"} |->
        CASE k = "id" -> stored.ID
          [] k = "roadmap" -> MarshalRoadmap(stored.Roadmap)
          [] k = "file_name" -> stored.FileName]

\* json.Unmarshal: a key that is absent leaves the field at its zero value.
Field(obj, key, zero) == IF key \in DOMAIN obj THEN obj[key] ELSE zero

UnmarshalExternalDependency(obj) ==
    ExternalDependency(Field(obj, "roadmap", ""), Field(obj, "roadmap_id", ""),
                       Field(obj, "item", ""), Field(obj, "criticality", ""))

UnmarshalItem(obj) ==
    LET ext == Field(obj, "external_dependencies", <<>>)
    IN  RoadmapItem(Field(obj, "id", ""), Field(obj, "name", ""),
                    Field(obj, "start", ""), Field(obj, "end", ""),
                    Field(obj, "status", ""), Field(obj, "dependencies", <<>>),
                    [n \in DOMAIN ext |-> UnmarshalExternalDependency(ext[n])])

UnmarshalRoadmap(obj) ==
    LET items == Field(obj, "items", <<>>)
    IN  Roadmap(Field(obj, "name", ""), Field(obj, "service_line", ""),
                [n \in DOMAIN items |-> UnmarshalItem(items[n])])

Unmarshal(obj) ==
    StoredRoadmap(Field(obj, "id", ""),
                  UnmarshalRoadmap(Field(obj, "roadmap", EmptyMap)),
                  Field(obj, "file_name", ""))

\* sync.RWMutex: Lock waits until nobody holds the mutex, RLock until no
\* writer holds it.  (A Lock that is waiting also holds back later RLocks;
\* without that, as here, the goroutines can do more, not less.)
Lock(g) ==
    /\ mu.writer = 0 /\ mu.readers = {}
    /\ mu' = [mu EXCEPT !.writer = g]
Unlock(g) == mu' = [mu EXCEPT !.writer = 0]

\* An RLock that does not wait for the writer.
RLock_IgnoresWriter(g) ==
    mu' = [mu EXCEPT !.readers = @ \cup {g}]

RLock(g) ==
    /\ mu.writer = 0
    /\ mu' = [mu EXCEPT !.readers = @ \cup {g}]
RUnlock(g) == mu' = [mu EXCEPT !.readers = @ \ {g}]

\* The locals of a goroutine: the request (op) and where it is (pc), the
\* roadmap ID and roadmap of the call, the directory entries still to read,
\* the roadmaps read so far, what the call or the pass returned; snap is
\* history, the files as they were when the call took the read lock.
Idle ==
    [op |-> "idle", pc |-> "idle", id |-> "", roadmap |-> <<>>, entries |-> <<>>,
     listed |-> <<>>, out |-> <<>>, snap |-> <<>>]

\* The metadata files in os.ReadDir order (by file name) from the i-th ID.
RECURSIVE ReadDir(_, _)
ReadDir(m, i) ==
    IF i > MaxIDs THEN <<>>
    ELSE (IF IDAt(i) \in DOMAIN m THEN <<IDAt(i)>> ELSE <<>>) \o ReadDir(m, i + 1)

\* What the metadata files unmarshal to, in os.ReadDir order.
Files(m) == LET ids == ReadDir(m, 1) IN [n \in DOMAIN ids |-> Unmarshal(m[ids[n]])]

\* Roadmaps the requests store.
ConcDocuments == {DocA, DocB}

InitConc ==
    /\ meta = EmptyMap
    /\ yaml = {}
    /\ used = {}
    /\ req = [op |-> "none"]
    /\ resp = NoResponse
    /\ dependents = <<>>
    /\ removed = <<>>
    /\ mu = Unlocked
    /\ calls = [g \in Goroutines |-> Idle]
    /\ created = EmptyMap

\* FileStorage.Create: fs.mu.Lock() and uuid.New() ...
CreateCall(g, roadmap, id) ==
    /\ calls[g].op = "idle"
    /\ id \in RoadmapIDs \ used
    /\ Lock(g)
    /\ used' = used \cup {id}
    /\ created' = MapSet(created, id, roadmap)
    /\ calls' = [calls EXCEPT ![g] =
                    [Idle EXCEPT !.op = "Create", !.pc = "writeYAML",
                                 !.id = id, !.roadmap = roadmap]]
    /\ UNCHANGED <<meta, yaml, req, resp, dependents, removed>>

\* ... os.WriteFile(yamlPath) ...
CreateWriteYAML(g) ==
    /\ calls[g].op = "Create" /\ calls[g].pc = "writeYAML"
    /\ yaml' = yaml \cup {calls[g].id}
    /\ calls' = [calls EXCEPT ![g].pc = "writeMeta"]
    /\ UNCHANGED <<meta, used, created, mu, req, resp, dependents, removed>>

\* ... json.Marshal(stored) and os.WriteFile(metaPath) ...
CreateWriteMeta(g) ==
    /\ calls[g].op = "Create" /\ calls[g].pc = "writeMeta"
    /\ meta' = MapSet(meta, calls[g].id,
                      Marshal(StoredRoadmap(calls[g].id, calls[g].roadmap,
                                            "uploaded.yaml")))
    /\ calls' = [calls EXCEPT ![g].pc = "return"]
    /\ UNCHANGED <<yaml, used, created, mu, req, resp, dependents, removed>>

\* ... return stored, with the deferred fs.mu.Unlock().
CreateReturn(g) ==
    /\ calls[g].op = "Create" /\ calls[g].pc = "return"
    /\ Unlock(g)
    /\ calls' = [calls EXCEPT ![g] = Idle]
    /\ UNCHANGED <<meta, yaml, used, created, req, resp, dependents, removed>>

\* FileStorage.Delete: fs.mu.Lock() ...
DeleteCall(g, id) ==
    /\ calls[g].op = "idle"
    /\ Lock(g)
    /\ calls' = [calls EXCEPT ![g] = [Idle EXCEPT !.op = "Delete", !.pc = "stat", !.id = id]]
    /\ UNCHANGED <<meta, yaml, used, created, req, resp, dependents, removed>>

\* ... os.Stat(metaPath): "roadmap not found" and the deferred Unlock if
\* the file does not exist ...
DeleteStat(g) ==
    /\ calls[g].op = "Delete" /\ calls[g].pc = "stat"
    /\ IF calls[g].id \notin DOMAIN meta
       THEN /\ Unlock(g)
            /\ calls' = [calls EXCEPT ![g] = Idle]
       ELSE /\ calls' = [calls EXCEPT ![g].pc = "removeYAML"]
            /\ UNCHANGED mu
    /\ UNCHANGED <<meta, yaml, used, created, req, resp, dependents, removed>>

\* ... os.Remove(yamlPath) ...
DeleteRemoveYAML(g) ==
    /\ calls[g].op = "Delete" /\ calls[g].pc = "removeYAML"
    /\ yaml' = yaml \ {calls[g].id}
    /\ calls' = [calls EXCEPT ![g].pc = "removeMeta"]
    /\ UNCHANGED <<meta, used, created, mu, req, resp, dependents, removed>>

\* ... os.Remove(metaPath) ...
DeleteRemoveMeta(g) ==
    /\ calls[g].op = "Delete" /\ calls[g].pc = "removeMeta"
    /\ meta' = [k \in DOMAIN meta \ {calls[g].id} |-> meta[k]]
    /\ created' = [k \in DOMAIN created \ {calls[g].id} |-> created[k]]
    /\ calls' = [calls EXCEPT ![g].pc = "return"]
    /\ UNCHANGED <<yaml, used, mu, req, resp, dependents, removed>>

\* ... return nil, with the deferred fs.mu.Unlock().
DeleteReturn(g) ==
    /\ calls[g].op = "Delete" /\ calls[g].pc = "return"
    /\ Unlock(g)
    /\ calls' = [calls EXCEPT ![g] = Idle]
    /\ UNCHANGED <<meta, yaml, used, created, req, resp, dependents, removed>>

\* FileStorage.Get: fs.mu.RLock() ...
GetCall(g, id) ==
    /\ calls[g].op = "idle"
    /\ RLock(g)
    /\ calls' = [calls EXCEPT ![g] =
                    [Idle EXCEPT !.op = "Get", !.pc = "readFile", !.id = id]]
    /\ UNCHANGED <<meta, yaml, used, created, req, resp, dependents, removed>>

\* ... os.ReadFile(metaPath) and json.Unmarshal ...
GetReadFile(g) ==
    /\ calls[g].op = "Get" /\ calls[g].pc = "readFile"
    /\ calls' = [calls EXCEPT ![g].pc = "return",
                              ![g].out = IF calls[g].id \in DOMAIN meta
                                         THEN <<Unmarshal(meta[calls[g].id])>>
                                         ELSE <<>>]
    /\ UNCHANGED <<meta, yaml, used, created, mu, req, resp, dependents, removed>>

\* ... return &stored or "roadmap not found", with the deferred
\* fs.mu.RUnlock().
GetReturn(g) ==
    /\ calls[g].op = "Get" /\ calls[g].pc = "return"
    /\ RUnlock(g)
    /\ calls' = [calls EXCEPT ![g] = Idle]
    /\ UNCHANGED <<meta, yaml, used, created, req, resp, dependents, removed>>

\* RoadmapHandler.ValidateDependencies: FileStorage.List: fs.mu.RLock() ...
ListCall(g) ==
    /\ calls[g].op = "idle"
    /\ RLock(g)
    /\ calls' = [calls EXCEPT ![g] =
                    [Idle EXCEPT !.op = "List", !.pc = "readDir",
                                 !.snap = IF mu.writer = 0 THEN Files(meta)
                                          ELSE <<"a write is under way">>]]
    /\ UNCHANGED <<meta, yaml, used, created, req, resp, dependents, removed>>

\* ... os.ReadDir(metaDir) ...
ListReadDir(g) ==
    /\ calls[g].op = "List" /\ calls[g].pc = "readDir"
    /\ calls' = [calls EXCEPT ![g].pc = "readFile", ![g].entries = ReadDir(meta, 1)]
    /\ UNCHANGED <<meta, yaml, used, created, mu, req, resp, dependents, removed>>

\* ... for each entry os.ReadFile and json.Unmarshal, a file that cannot
\* be read being skipped ...
ListReadFile(g) ==
    /\ calls[g].op = "List" /\ calls[g].pc = "readFile"
    /\ IF calls[g].entries = <<>>
       THEN calls' = [calls EXCEPT ![g].pc = "return"]
       ELSE LET id == Head(calls[g].entries)
            IN  calls' = [calls EXCEPT
                    ![g].entries = Tail(@),
                    ![g].listed = IF id \in DOMAIN meta
                                  THEN Append(@, Unmarshal(meta[id])) ELSE @]
    /\ UNCHANGED <<meta, yaml, used, created, mu, req, resp, dependents, removed>>

\* ... return roadmaps, with the deferred fs.mu.RUnlock().
ListReturn(g) ==
    /\ calls[g].op = "List" /\ calls[g].pc = "return"
    /\ RUnlock(g)
    /\ calls' = [calls EXCEPT ![g].pc = "listed"]
    /\ UNCHANGED <<meta, yaml, used, created, req, resp, dependents, removed>>

\* A handler that lists again for the pass.
Resolve_ListsAgain(g) ==
    /\ calls[g].op = "List" /\ calls[g].pc = "listed"
    /\ calls' = [calls EXCEPT ![g].pc = "returned",
                              ![g].out = ValidateExternalDependencies(Files(meta))]
    /\ UNCHANGED <<meta, yaml, used, created, mu, req, resp, dependents, removed>>

\* RoadmapHandler.ValidateDependencies after List has returned:
\* storage.ValidateExternalDependencies(allRoadmaps).
Resolve(g) ==
    /\ calls[g].op = "List" /\ calls[g].pc = "listed"
    /\ calls' = [calls EXCEPT ![g].pc = "returned",
                              ![g].out = ValidateExternalDependencies(calls[g].listed)]
    /\ UNCHANGED <<meta, yaml, used, created, mu, req, resp, dependents, removed>>

\* The response is written; the goroutine takes the next request.
Respond(g) ==
    /\ calls[g].pc = "returned"
    /\ calls' = [calls EXCEPT ![g] = Idle]
    /\ UNCHANGED <<meta, yaml, used, created, mu, req, resp, dependents, removed>>

NextConc ==
    \E g \in Goroutines :
        \/ \E roadmap \in ConcDocuments, id \in RoadmapIDs : CreateCall(g, roadmap, id)
        \/ CreateWriteYAML(g)
        \/ CreateWriteMeta(g)
        \/ CreateReturn(g)
        \/ \E id \in RoadmapIDs : DeleteCall(g, id)
        \/ DeleteStat(g)
        \/ DeleteRemoveYAML(g)
        \/ DeleteRemoveMeta(g)
        \/ DeleteReturn(g)
        \/ \E id \in RoadmapIDs : GetCall(g, id)
        \/ GetReadFile(g)
        \/ GetReturn(g)
        \/ ListCall(g)
        \/ ListReadDir(g)
        \/ ListReadFile(g)
        \/ ListReturn(g)
        \/ Resolve(g)
        \/ Respond(g)

SpecConc == InitConc /\ [][NextConc]_vars

(***************************************************************************)
(* GET /api/roadmaps/{id}/dependents next to Creates and Deletes.  The     *)
(* handler calls FileStorage.List, storage.GetExternalDependents on what   *)
(* List returned, then FileStorage.Get, each call taking and releasing the *)
(* read lock on its own.  No file changes while a goroutine holds fs.mu for *)
(* reading, and nothing is read while one holds it for writing, so a Create *)
(* or a Delete is one step and the reads of a List or a Get are one step.  *)
(***************************************************************************)
\* A path ID that uuid.New() never returns.
NoSuchID == "r0"

\* The roadmap IDs a request can name: an ID is 122 random bits, so a
\* request names an ID only once uuid.New() has returned it (the ID of a
\* stored or of a deleted roadmap), or an ID that is never returned.
RequestIDs == used \cup {NoSuchID}

\* The locals of GetRoadmapDependents.  allRoadmaps is not used after
\* GetExternalDependents has returned and is dropped there; target is
\* history, the roadmaps of allRoadmaps that bore the ID.
Handling(id, pc, allRoadmaps, found, stored, response) ==
    [op |-> "Dependents", pc |-> pc, id |-> id, allRoadmaps |-> allRoadmaps,
     target |-> <<>>, dependents |-> found, stored |-> stored, response |-> response]

\* The roadmaps of a list that bear the ID, in order.
RECURSIVE Bearing(_, _, _)
Bearing(id, allRoadmaps, i) ==
    IF i > Len(allRoadmaps) THEN <<>>
    ELSE (IF allRoadmaps[i].ID = id THEN <<allRoadmaps[i]>> ELSE <<>>)
         \o Bearing(id, allRoadmaps, i + 1)

\* FileStorage.Create from fs.mu.Lock() to the deferred Unlock, in the
\* goroutine of an upload.
Create(g, roadmap, id) ==
    /\ calls[g].op = "idle"
    /\ id \in RoadmapIDs \ used
    /\ mu.writer = 0 /\ mu.readers = {}
    /\ used' = used \cup {id}
    /\ created' = MapSet(created, id, roadmap)
    /\ yaml' = yaml \cup {id}
    /\ meta' = MapSet(meta, id, Marshal(StoredRoadmap(id, roadmap, "uploaded.yaml")))
    /\ UNCHANGED <<mu, calls, req, resp, dependents, removed>>

\* FileStorage.Delete from fs.mu.Lock() to the deferred Unlock, in the
\* goroutine of a DELETE request.
Delete(g, id) ==
    /\ calls[g].op = "idle"
    /\ mu.writer = 0 /\ mu.readers = {}
    /\ IF id \notin DOMAIN meta
       THEN UNCHANGED <<meta, yaml, created>>
       ELSE /\ yaml' = yaml \ {id}
            /\ meta' = [k \in DOMAIN meta \ {id} |-> meta[k]]
            /\ created' = [k \in DOMAIN created \ {id} |-> created[k]]
    /\ UNCHANGED <<mu, calls, used, req, resp, dependents, removed>>

\* The path check, then h.storage.List(): fs.mu.RLock(), os.ReadDir and,
\* for each entry, os.ReadFile and json.Unmarshal ...
DependentsList(g, id) ==
    /\ calls[g].op = "idle"
    /\ IF id = ""
       THEN /\ calls' = [calls EXCEPT ![g] =
                           Handling(id, "respond", <<>>, <<>>, <<>>,
                               Response(StatusBadRequest, "Invalid roadmap ID", <<>>))]
            /\ UNCHANGED mu
       ELSE /\ RLock(g)
            /\ calls' = [calls EXCEPT ![g] =
                           Handling(id, "listReturn", Files(meta), <<>>, <<>>, NoResponse)]
    /\ UNCHANGED <<meta, yaml, used, created, req, resp, dependents, removed>>

\* ... return roadmaps with the deferred fs.mu.RUnlock(), and
\* storage.GetExternalDependents(id, allRoadmaps).
DependentsListReturn(g) ==
    /\ calls[g].op = "Dependents" /\ calls[g].pc = "listReturn"
    /\ RUnlock(g)
    /\ calls' = [calls EXCEPT ![g].pc = "get",
                              ![g].allRoadmaps = <<>>,
                              ![g].target = Bearing(calls[g].id, calls[g].allRoadmaps, 1),
                              ![g].dependents =
                                  GetExternalDependents(calls[g].id, calls[g].allRoadmaps)]
    /\ UNCHANGED <<meta, yaml, used, created, req, resp, dependents, removed>>

\* h.storage.Get(id): fs.mu.RLock(), os.ReadFile(metaPath) and
\* json.Unmarshal ...
DependentsGet(g) ==
    /\ calls[g].op = "Dependents" /\ calls[g].pc = "get"
    /\ RLock(g)
    /\ calls' = [calls EXCEPT ![g].pc = "getReturn",
                              ![g].stored = IF calls[g].id \in DOMAIN meta
                                            THEN <<Unmarshal(meta[calls[g].id])>>
                                            ELSE <<>>]
    /\ UNCHANGED <<meta, yaml, used, created, req, resp, dependents, removed>>

\* A handler that answers with the edges also when Get finds no roadmap.
DependentsGetReturn_IgnoresNotFound(g) ==
    /\ calls[g].op = "Dependents" /\ calls[g].pc = "getReturn"
    /\ RUnlock(g)
    /\ calls' = [calls EXCEPT
           ![g].pc = "respond",
           ![g].response =
               Response(StatusOK, Nil,
                   [roadmap_id |-> calls[g].id,
                    roadmap_name |-> IF calls[g].stored = <<>> THEN ""
                                     ELSE calls[g].stored[1].Roadmap.Name,
                    dependents |-> calls[g].dependents,
                    count |-> Len(calls[g].dependents)])]
    /\ UNCHANGED <<meta, yaml, used, created, req, resp, dependents, removed>>

\* ... return with the deferred fs.mu.RUnlock(); 404 if Get reported
\* "roadmap not found", otherwise the response map.
DependentsGetReturn(g) ==
    /\ calls[g].op = "Dependents" /\ calls[g].pc = "getReturn"
    /\ RUnlock(g)
    /\ calls' = [calls EXCEPT
           ![g].pc = "respond",
           ![g].response =
               IF calls[g].stored = <<>>
               THEN Response(StatusNotFound, "Roadmap not found", <<>>)
               ELSE Response(StatusOK, Nil,
                        [roadmap_id |-> calls[g].stored[1].ID,
                         roadmap_name |-> calls[g].stored[1].Roadmap.Name,
                         dependents |-> calls[g].dependents,
                         count |-> Len(calls[g].dependents)])]
    /\ UNCHANGED <<meta, yaml, used, created, req, resp, dependents, removed>>

\* The response is written; the goroutine takes the next request.
DependentsRespond(g) ==
    /\ calls[g].op = "Dependents" /\ calls[g].pc = "respond"
    /\ calls' = [calls EXCEPT ![g] = Idle]
    /\ UNCHANGED <<meta, yaml, used, created, mu, req, resp, dependents, removed>>

NextDependents ==
    \E g \in Goroutines :
        \/ \E roadmap \in ConcDocuments, id \in RoadmapIDs \ used : Create(g, roadmap, id)
        \/ \E id \in RequestIDs : Delete(g, id)
        \/ \E id \in RequestIDs \cup {""} : DependentsList(g, id)
        \/ DependentsListReturn(g)
        \/ DependentsGet(g)
        \/ DependentsGetReturn(g)
        \/ DependentsRespond(g)

SpecDependents == InitConc /\ [][NextDependents]_vars

(***************************************************************************)
(* The calls of FileStorage one after the other, on a file system whose    *)
(* writes and removes may fail.  os.WriteFile opens the file (creating or  *)
(* truncating it), writes and closes: when it fails the file is not there, *)
(* or it is there partially written.  A metadata file is the JSON object   *)
(* json.Marshal gave, as above, or Truncated.  At most one operation on a   *)
(* file fails in a call.  A caller holds the ID of a roadmap only from     *)
(* what Create has returned.                                               *)
(***************************************************************************)
\* A metadata file cut short by a write that failed: no JSON value.
Truncated == <<>>

\* A List that gives up at the first metadata file it cannot parse and
\* returns what it has read so far.
RECURSIVE ListFrom_StopsAtUnparseable(_, _)
ListFrom_StopsAtUnparseable(m, i) ==
    IF i > MaxIDs THEN <<>>
    ELSE IF IDAt(i) \notin DOMAIN m THEN ListFrom_StopsAtUnparseable(m, i + 1)
    ELSE IF m[IDAt(i)] = Truncated THEN <<>>
    ELSE <<Unmarshal(m[IDAt(i)])>> \o ListFrom_StopsAtUnparseable(m, i + 1)

\* FileStorage.List: os.ReadDir order from the i-th ID on; a file that
\* json.Unmarshal cannot parse is skipped.
RECURSIVE ListFrom(_, _)
ListFrom(m, i) ==
    IF i > MaxIDs THEN <<>>
    ELSE (IF IDAt(i) \in DOMAIN m /\ m[IDAt(i)] # Truncated
          THEN <<Unmarshal(m[IDAt(i)])>> ELSE <<>>) \o ListFrom(m, i + 1)

\* What FileStorage.List and FileStorage.Get(id) return on the metadata
\* files m.
ListOf(m) == [out |-> ListFrom(m, 1), err |-> Nil]
GetOf(m, id) ==
    IF id \notin DOMAIN m THEN [out |-> <<>>, err |-> "roadmap not found"]
    ELSE IF m[id] = Truncated
    THEN [out |-> <<>>, err |-> "failed to parse metadata: unexpected end of JSON input"]
    ELSE [out |-> <<Unmarshal(m[id])>>, err |-> Nil]

\* Where a Create can fail: opening or writing the YAML file, opening or
\* writing the metadata file; where a Delete can: removing either file.
CreateFaults == {"none", "open yaml", "write yaml", "open meta", "write meta"}
DeleteFaults == {"none", "remove yaml", "remove meta"}

\* The IDs a caller can pass: those Create has returned, and one that is
\* never returned.
CallerIDs == DOMAIN created \cup {NoSuchID}

InitStorage ==
    /\ meta = EmptyMap
    /\ yaml = {}
    /\ used = {}
    /\ req = [op |-> "none"]
    /\ resp = [out |-> <<>>, err |-> Nil]
    /\ dependents = <<>>
    /\ removed = {}
    /\ mu = Unlocked
    /\ calls = <<>>
    /\ created = EmptyMap

\* A Create that leaves the YAML file in place when the metadata file
\* cannot be written.
StorageCreate_NoCleanUp(roadmap, id, fault) ==
    /\ id \in RoadmapIDs \ used
    /\ used' = used \cup {id}
    /\ req' = [op |-> "Create", roadmap |-> roadmap, id |-> id, fault |-> fault]
    /\ LET stored == StoredRoadmap(id, roadmap, "uploaded.yaml")
       IN  CASE fault = "open yaml" ->
                  /\ resp' = [out |-> <<>>, err |-> WriteFailed]
                  /\ UNCHANGED <<meta, yaml, created>>
             [] fault = "write yaml" ->
                  /\ yaml' = yaml \cup {id}
                  /\ resp' = [out |-> <<>>, err |-> WriteFailed]
                  /\ UNCHANGED <<meta, created>>
             [] fault = "open meta" ->
                  /\ yaml' = yaml \cup {id}
                  /\ resp' = [out |-> <<>>,
                              err |-> "failed to write metadata file: input/output error"]
                  /\ UNCHANGED <<meta, created>>
             [] fault = "write meta" ->
                  /\ yaml' = yaml \cup {id}
                  /\ meta' = MapSet(meta, id, Truncated)
                  /\ resp' = [out |-> <<>>,
                              err |-> "failed to write metadata file: input/output error"]
                  /\ UNCHANGED created
             [] fault = "none" ->
                  /\ yaml' = yaml \cup {id}
                  /\ meta' = MapSet(meta, id, Marshal(stored))
                  /\ created' = MapSet(created, id, roadmap)
                  /\ resp' = [out |-> <<stored>>, err |-> Nil]
    /\ UNCHANGED <<mu, calls, dependents, removed>>

\* FileStorage.Create(roadmap, "uploaded.yaml") from fs.mu.Lock() to the
\* deferred Unlock; id is what uuid.New() returns, fault where the call
\* fails.  The YAML file is written first, then the metadata file; if that
\* write fails the YAML file is removed again.
StorageCreate(roadmap, id, fault) ==
    /\ id \in RoadmapIDs \ used
    /\ used' = used \cup {id}
    /\ req' = [op |-> "Create", roadmap |-> roadmap, id |-> id, fault |-> fault]
    /\ LET stored == StoredRoadmap(id, roadmap, "uploaded.yaml")
       IN  CASE fault = "open yaml" ->
                  /\ resp' = [out |-> <<>>, err |-> WriteFailed]
                  /\ UNCHANGED <<meta, yaml, created>>
             [] fault = "write yaml" ->
                  /\ yaml' = yaml \cup {id}
                  /\ resp' = [out |-> <<>>, err |-> WriteFailed]
                  /\ UNCHANGED <<meta, created>>
             [] fault = "open meta" ->
                  /\ yaml' = (yaml \cup {id}) \ {id}
                  /\ resp' = [out |-> <<>>,
                              err |-> "failed to write metadata file: input/output error"]
                  /\ UNCHANGED <<meta, created>>
             [] fault = "write meta" ->
                  /\ yaml' = (yaml \cup {id}) \ {id}
                  /\ meta' = MapSet(meta, id, Truncated)
                  /\ resp' = [out |-> <<>>,
                              err |-> "failed to write metadata file: input/output error"]
                  /\ UNCHANGED created
             [] fault = "none" ->
                  /\ yaml' = yaml \cup {id}
                  /\ meta' = MapSet(meta, id, Marshal(stored))
                  /\ created' = MapSet(created, id, roadmap)
                  /\ resp' = [out |-> <<stored>>, err |-> Nil]
    /\ UNCHANGED <<mu, calls, dependents, removed>>

\* FileStorage.Get(id) from fs.mu.RLock() to the deferred RUnlock.
StorageGet(id) ==
    /\ req' = [op |-> "Get", id |-> id]
    /\ resp' = GetOf(meta, id)
    /\ UNCHANGED <<meta, yaml, used, created, mu, calls, dependents, removed>>

\* FileStorage.List() from fs.mu.RLock() to the deferred RUnlock.
StorageList ==
    /\ req' = [op |-> "List"]
    /\ resp' = ListOf(meta)
    /\ UNCHANGED <<meta, yaml, used, created, mu, calls, dependents, removed>>

\* A Delete that removes the YAML file only and reports success.
StorageDelete_KeepsMeta(id, fault) ==
    /\ req' = [op |-> "Delete", id |-> id, fault |-> fault]
    /\ IF id \notin DOMAIN meta
       THEN /\ resp' = [out |-> <<>>, err |-> "roadmap not found"]
            /\ UNCHANGED <<meta, yaml, removed>>
       ELSE /\ yaml' = yaml \ {id}
            /\ removed' = removed \cup {id}
            /\ resp' = [out |-> <<>>, err |-> Nil]
            /\ UNCHANGED meta
    /\ UNCHANGED <<used, created, mu, calls, dependents>>

\* FileStorage.Delete(id) from fs.mu.Lock() to the deferred Unlock: os.Stat
\* of the metadata file, os.Remove of the YAML file (that it is not there
\* is no error), os.Remove of the metadata file.
StorageDelete(id, fault) ==
    /\ req' = [op |-> "Delete", id |-> id, fault |-> fault]
    /\ IF id \notin DOMAIN meta
       THEN /\ resp' = [out |-> <<>>, err |-> "roadmap not found"]
            /\ UNCHANGED <<meta, yaml, removed>>
       ELSE IF fault = "remove yaml" /\ id \in yaml
       THEN /\ resp' = [out |-> <<>>,
                        err |-> "failed to delete yaml file: input/output error"]
            /\ UNCHANGED <<meta, yaml, removed>>
       ELSE IF fault = "remove meta"
       THEN /\ yaml' = yaml \ {id}
            /\ resp' = [out |-> <<>>,
                        err |-> "failed to delete metadata file: input/output error"]
            /\ UNCHANGED <<meta, removed>>
       ELSE /\ yaml' = yaml \ {id}
            /\ meta' = [k \in DOMAIN meta \ {id} |-> meta[k]]
            /\ removed' = removed \cup {id}
            /\ resp' = [out |-> <<>>, err |-> Nil]
    /\ UNCHANGED <<used, created, mu, calls, dependents>>

NextStorage ==
    \/ \E id \in RoadmapIDs \ used, roadmap \in ConcDocuments, fault \in CreateFaults :
          StorageCreate(roadmap, id, fault)
    \/ \E id \in CallerIDs : StorageGet(id)
    \/ StorageList
    \/ \E id \in CallerIDs, fault \in DeleteFaults : StorageDelete(id, fault)

SpecStorage == InitStorage /\ [][NextStorage]_vars

(***************************************************************************)
(* Rules of section 4.1, stated one by one, independently of the order in  *)
(* which Roadmap.Validate visits them.                                     *)
(***************************************************************************)
Statuses == {"planned", "in-progress", "completed", "blocked"}
Criticalities == {"low", "medium", "high", "critical"}

Least(S) == CHOOSE k \in S : \A m \in S : k <= m

ExtDepWellFormed(d) ==
    /\ d.RoadmapName # "" \/ d.RoadmapID # ""
    /\ d.ItemID # ""
    /\ d.Criticality # "" => d.Criticality \in Criticalities

ItemWellFormed(it) ==
    /\ it.ID # "" /\ it.Name # "" /\ it.Start # "" /\ it.End # ""
    /\ it.Status \in Statuses
    /\ \A n \in 1..Len(it.ExternalDependencies) :
          ExtDepWellFormed(it.ExternalDependencies[n])

ItemIDsDistinct(r) ==
    \A i, j \in 1..Len(r.Items) : i # j => r.Items[i].ID # r.Items[j].ID

InternalDepsResolve(r) ==
    \A i \in 1..Len(r.Items) : \A j \in 1..Len(r.Items[i].Dependencies) :
        \E k \in 1..Len(r.Items) : r.Items[k].ID = r.Items[i].Dependencies[j]

WellFormed(r) ==
    /\ r.Name # "" /\ r.ServiceLine # "" /\ Len(r.Items) >= 1
    /\ \A i \in 1..Len(r.Items) : ItemWellFormed(r.Items[i])
    /\ ItemIDsDistinct(r)
    /\ InternalDepsResolve(r)

\* What is wrong with one external dependency, printed with its 0-based index.
ExtDepViolation(d, n) ==
    "external dependency " \o ToString(n - 1) \o
    ( IF d.RoadmapName = "" /\ d.RoadmapID = ""
      THEN ": either roadmap name or roadmap_id is required"
      ELSE IF d.ItemID = "" THEN ": item id is required"
      ELSE ": invalid criticality '" \o d.Criticality
           \o "' (must be low, medium, high, or critical)" )

\* What is wrong with an item that is not well formed: required fields, then
\* the status, then the first external dependency that is not well formed.
ItemViolation(it) ==
    IF it.ID = "" THEN "item id is required"
    ELSE IF it.Name = "" THEN "item name is required"
    ELSE IF it.Start = "" THEN "item start is required"
    ELSE IF it.End = "" THEN "item end is required"
    ELSE IF it.Status \notin Statuses
    THEN "invalid status: " \o it.Status
         \o " (must be planned, in-progress, completed, or blocked)"
    ELSE LET n == Least({m \in 1..Len(it.ExternalDependencies) :
                            ~ExtDepWellFormed(it.ExternalDependencies[m])})
         IN  ExtDepViolation(it.ExternalDependencies[n], n)

BadItems(r) == {k \in 1..Len(r.Items) : ~ItemWellFormed(r.Items[k])}
\* Items whose ID already occurs on an earlier item.
RepeatItems(r) ==
    {k \in 1..Len(r.Items) : \E m \in 1..(k - 1) : r.Items[m].ID = r.Items[k].ID}
\* Positions <<i, j>> of internal dependencies that name no item of r.
DanglingDeps(r) ==
    UNION { { <<i, j>> : j \in { n \in 1..Len(r.Items[i].Dependencies) :
                  \A k \in 1..Len(r.Items) :
                      r.Items[k].ID # r.Items[i].Dependencies[n] } } :
            i \in 1..Len(r.Items) }
FirstDanglingDep(r) ==
    CHOOSE p \in DanglingDeps(r) : \A q \in DanglingDeps(r) :
        p[1] < q[1] \/ (p[1] = q[1] /\ p[2] <= q[2])

ItemError(r, k) ==
    "item " \o ToString(k - 1) \o ": " \o ItemViolation(r.Items[k])
DuplicateError(r, k) == "duplicate item id: " \o r.Items[k].ID
DependencyError(r, p) ==
    "item " \o r.Items[p[1]].ID \o ": dependency "
    \o r.Items[p[1]].Dependencies[p[2]] \o " does not exist"

\* The error of a candidate under the order of section 4.1: rules (1)-(3),
\* then (4) the per-item checks of every item, then (5) duplicate IDs, then
\* (6) dangling internal dependencies.
ErrorInListedOrder(r) ==
    IF r.Name = "" THEN "roadmap name is required"
    ELSE IF r.ServiceLine = "" THEN "service_line is required"
    ELSE IF Len(r.Items) = 0 THEN "roadmap must have at least one item"
    ELSE IF BadItems(r) # {} THEN ItemError(r, Least(BadItems(r)))
    ELSE IF RepeatItems(r) # {} THEN DuplicateError(r, Least(RepeatItems(r)))
    ELSE IF DanglingDeps(r) # {} THEN DependencyError(r, FirstDanglingDep(r))
    ELSE Nil

\* The same with rules (4) and (5) taken together item by item: the first
\* item that is not well formed or repeats an earlier ID decides, and on
\* that item its own checks come before the duplicate check.
ErrorInItemwiseOrder(r) ==
    IF r.Name = "" THEN "roadmap name is required"
    ELSE IF r.ServiceLine = "" THEN "service_line is required"
    ELSE IF Len(r.Items) = 0 THEN "roadmap must have at least one item"
    ELSE IF BadItems(r) \cup RepeatItems(r) # {}
    THEN LET k == Least(BadItems(r) \cup RepeatItems(r))
         IN  IF k \in BadItems(r) THEN ItemError(r, k) ELSE DuplicateError(r, k)
    ELSE IF DanglingDeps(r) # {} THEN DependencyError(r, FirstDanglingDep(r))
    ELSE Nil

Validated == req.op = "Validate" /\ resp.status = 1

\* C9 (as claimed): Roadmap.Validate reports the first violated rule in the
\* order (1) name, (2) service_line, (3) no items, (4) per-item checks of
\* every item, (5) duplicate item IDs, (6) dangling internal dependencies;
\* a per-item violation anywhere precedes a duplicate ID anywhere.
C9_ListedOrder ==
    Validated => resp.error = ErrorInListedOrder(req.roadmap)

\* C9 (amended): Roadmap.Validate reports the first violated rule in the
\* order (1) name, (2) service_line, (3) no items, then item by item in
\* declaration order the item's own checks followed by the check that its
\* ID repeats no earlier item's ID, and last the dangling internal
\* dependencies; a per-item violation on item k precedes a duplicate ID
\* only if no item before k repeats an ID.
C9_ItemwiseOrder ==
    Validated => resp.error = ErrorInItemwiseOrder(req.roadmap)

\* A candidate where the two orders part: a repeated ID ahead of an item
\* that fails its own checks, reported as the duplicate.
C9_Witness ==
    /\ Validated
    /\ req.roadmap.Name # "" /\ req.roadmap.ServiceLine # ""
    /\ \E k \in RepeatItems(req.roadmap) : \E b \in BadItems(req.roadmap) :
          /\ k < b
          /\ \A m \in BadItems(req.roadmap) : k < m
          /\ resp.error = DuplicateError(req.roadmap, k)

\* C10: Roadmap.Validate returns nil exactly for the well-formed roadmaps:
\* name, service_line and at least one item present, every item with id,
\* name, start, end and a recognised status, every external dependency with
\* a target item and a target roadmap name or ID and a recognised or empty
\* criticality, item IDs pairwise distinct, internal dependencies resolved.
C10_ValidIffWellFormed ==
    Validated => (resp.error = Nil <=> WellFormed(req.roadmap))

\* An accepted candidate with several items, an internal dependency and
\* external dependencies carrying a criticality.
C10_Witness ==
    /\ Validated
    /\ resp.error = Nil
    /\ Len(req.roadmap.Items) >= 2
    /\ \E i \in 1..Len(req.roadmap.Items) : req.roadmap.Items[i].Dependencies # <<>>
    /\ \E i \in 1..Len(req.roadmap.Items) :
          \E n \in 1..Len(req.roadmap.Items[i].ExternalDependencies) :
              req.roadmap.Items[i].ExternalDependencies[n].Criticality # ""

(***************************************************************************)
(* The corpus a pass runs over, and the external dependencies declared in  *)
(* it, each with the roadmap and the item that declare it, roadmap by      *)
(* roadmap, item by item, dependency by dependency.                        *)
(***************************************************************************)
Corpus == List(meta, 1)

RECURSIVE DeclaredFrom(_, _, _, _)
DeclaredFrom(roadmaps, i, j, k) ==
    IF i > Len(roadmaps) THEN <<>>
    ELSE IF j > Len(roadmaps[i].Roadmap.Items) THEN DeclaredFrom(roadmaps, i + 1, 1, 1)
    ELSE IF k > Len(roadmaps[i].Roadmap.Items[j].ExternalDependencies)
    THEN DeclaredFrom(roadmaps, i, j + 1, 1)
    ELSE << [rm |-> roadmaps[i], item |-> roadmaps[i].Roadmap.Items[j],
             dep |-> roadmaps[i].Roadmap.Items[j].ExternalDependencies[k]] >>
         \o DeclaredFrom(roadmaps, i, j, k + 1)

Declared == DeclaredFrom(Corpus, 1, 1, 1)

ItemIDsOf(rm) == {rm.Roadmap.Items[j].ID : j \in 1..Len(rm.Roadmap.Items)}
WithID(id) == {i \in 1..Len(Corpus) : Corpus[i].ID = id}
Named(name) == {i \in 1..Len(Corpus) : Corpus[i].Roadmap.Name = name}

\* The roadmap an external dependency resolves to: the one with the ID if
\* an ID is declared, otherwise the last one of the declared name.
Resolved(d) ==
    IF d.RoadmapID # "" THEN WithID(d.RoadmapID)
    ELSE {i \in Named(d.RoadmapName) : \A m \in Named(d.RoadmapName) : m <= i}

\* A validation pass has been served; its k-th result judges Declared[k].
PassServed == req.op = "ValidateDependencies" /\ resp.status = StatusOK
Results == resp.body.results
Judged == DOMAIN Results \cap DOMAIN Declared

\* C1: the target roadmap is looked up by ID whenever target_roadmap_id is
\* non-empty and by name only when it is empty; a non-empty ID that matches
\* no roadmap gives an invalid result even if the declared name matches one.
C1_IDBeforeName ==
    PassServed =>
        \A k \in Judged :
            LET d == Declared[k].dep
            IN  IF d.RoadmapID # ""
                THEN /\ WithID(d.RoadmapID) = {} => ~Results[k].Valid
                     /\ Results[k].Valid <=>
                            \E i \in WithID(d.RoadmapID) : d.ItemID \in ItemIDsOf(Corpus[i])
                ELSE /\ Named(d.RoadmapName) = {} => ~Results[k].Valid
                     /\ Results[k].Valid =>
                            \E i \in Named(d.RoadmapName) : d.ItemID \in ItemIDsOf(Corpus[i])

\* A pass over a dependency whose ID matches nothing while its declared name
\* is the name of a roadmap that holds the target item; judged invalid.
C1_Witness ==
    /\ PassServed
    /\ \E k \in Judged :
          LET d == Declared[k].dep
          IN  /\ d.RoadmapID # "" /\ WithID(d.RoadmapID) = {}
              /\ \E i \in Named(d.RoadmapName) : d.ItemID \in ItemIDsOf(Corpus[i])
              /\ ~Results[k].Valid

\* The number of external dependencies declared in a list of roadmaps.
RECURSIVE SumLens(_, _)
SumLens(f, n) == IF n = 0 THEN 0 ELSE f[n] + SumLens(f, n - 1)
DeclaredCount(roadmaps) ==
    SumLens([i \in 1..Len(roadmaps) |->
                SumLens([j \in 1..Len(roadmaps[i].Roadmap.Items) |->
                            Len(roadmaps[i].Roadmap.Items[j].ExternalDependencies)],
                        Len(roadmaps[i].Roadmap.Items))],
            Len(roadmaps))

\* C2: a pass returns exactly one result per declared external dependency,
\* so an invalid result does not end the pass.
C2_OneResultPerDependency ==
    PassServed =>
        /\ Len(Results) = DeclaredCount(Corpus)
        /\ resp.body.total = DeclaredCount(Corpus)
        /\ resp.body.valid + resp.body.invalid = DeclaredCount(Corpus)

\* A pass with an invalid result that is followed by further results, one of
\* them valid.
C2_Witness ==
    /\ PassServed
    /\ \E k, m \in DOMAIN Results : k < m /\ ~Results[k].Valid /\ Results[m].Valid

\* C3: a result is valid exactly if the lookup finds a roadmap and that
\* roadmap has an item with the target item ID; a found roadmap without the
\* item gives "item '<item>' not found in roadmap '<name>'", <name> being
\* the name of the roadmap found.
C3_ValidIffItemInResolved ==
    PassServed =>
        \A k \in Judged :
            LET d == Declared[k].dep
            IN  /\ Results[k].Valid <=>
                       \E i \in Resolved(d) : d.ItemID \in ItemIDsOf(Corpus[i])
                /\ \A i \in Resolved(d) :
                       d.ItemID \notin ItemIDsOf(Corpus[i]) =>
                           Results[k].Error =
                               "item '" \o d.ItemID \o "' not found in roadmap '"
                               \o Corpus[i].Roadmap.Name \o "'"

\* A pass over a dependency found by ID in a roadmap that lacks the item and
\* whose name is not the declared name.
C3_Witness ==
    /\ PassServed
    /\ \E k \in Judged :
          LET d == Declared[k].dep
          IN  \E i \in Resolved(d) :
                  /\ d.ItemID \notin ItemIDsOf(Corpus[i])
                  /\ Corpus[i].Roadmap.Name # d.RoadmapName
                  /\ ~Results[k].Valid

\* C4: when the lookup finds no roadmap the result is invalid with
\* "roadmap with ID '<id>' not found" after a lookup by ID and
\* "roadmap named '<name>' not found" after a lookup by name.
C4_NotFoundErrorKind ==
    PassServed =>
        \A k \in Judged :
            LET d == Declared[k].dep
            IN  Resolved(d) = {} =>
                    /\ ~Results[k].Valid
                    /\ Results[k].Error =
                           IF d.RoadmapID # ""
                           THEN "roadmap with ID '" \o d.RoadmapID \o "' not found"
                           ELSE "roadmap named '" \o d.RoadmapName \o "' not found"

\* A pass with both kinds of miss, the one by ID on a dependency that also
\* declares a name.
C4_Witness ==
    /\ PassServed
    /\ \E k, m \in Judged :
          /\ Declared[k].dep.RoadmapID # "" /\ Declared[k].dep.RoadmapName # ""
          /\ Resolved(Declared[k].dep) = {}
          /\ Declared[m].dep.RoadmapID = ""
          /\ Resolved(Declared[m].dep) = {}

(***************************************************************************)
(* Deletion followed by a validation pass.                                 *)
(***************************************************************************)
IDIndex(id) == CHOOSE i \in 1..MaxIDs : IDAt(i) = id

\* req was a Delete that removed a roadmap (kept in removed[1]).
JustDeleted == req.op = "DeleteRoadmap" /\ resp.status = StatusNoContent

\* Before the deletion d resolved to the removed roadmap rm: by its ID, or
\* with no ID declared by its name, rm being the last roadmap of that name.
PointedAt(d, rm) ==
    \/ d.RoadmapID = rm.ID
    \/ /\ d.RoadmapID = ""
       /\ d.RoadmapName = rm.Roadmap.Name
       /\ \A i \in Named(rm.Roadmap.Name) : IDIndex(Corpus[i].ID) < IDIndex(rm.ID)

\* C5 (as claimed): after a Delete, which itself reports nothing, the next
\* pass reports as invalid every external dependency of another roadmap
\* that pointed at the deleted roadmap by ID or by name.
C5_DanglingAfterDelete ==
    [][ JustDeleted =>
          /\ resp.body = <<>> /\ resp.error = Nil
          /\ (req'.op = "ValidateDependencies" =>
                \A k \in DOMAIN Declared :
                    PointedAt(Declared[k].dep, removed[1]) =>
                        ~resp'.body.results[k].Valid) ]_vars

\* C5 (amended): after a Delete, which itself reports nothing, the next
\* pass reports as invalid every external dependency of another roadmap
\* that pointed at the deleted roadmap by ID, and every one that pointed at
\* it by name unless a remaining roadmap bears the same name (the
\* dependency is then judged against the last remaining one of that name).
C5_DanglingUnlessNameRemains ==
    [][ JustDeleted =>
          /\ resp.body = <<>> /\ resp.error = Nil
          /\ (req'.op = "ValidateDependencies" =>
                \A k \in DOMAIN Declared :
                    LET d == Declared[k].dep
                    IN  PointedAt(d, removed[1]) =>
                            IF d.RoadmapID = "" /\ Named(d.RoadmapName) # {}
                            THEN resp'.body.results[k].Valid <=>
                                     \E i \in Resolved(d) : d.ItemID \in ItemIDsOf(Corpus[i])
                            ELSE ~resp'.body.results[k].Valid) ]_vars

\* A pass that reports a missing roadmap for the ID of a roadmap deleted
\* earlier.
C5_Witness ==
    /\ PassServed
    /\ \E k \in Judged :
          /\ Declared[k].dep.RoadmapID \in used \ DOMAIN meta
          /\ ~Results[k].Valid
          /\ Results[k].Error =
                 "roadmap with ID '" \o Declared[k].dep.RoadmapID \o "' not found"

(***************************************************************************)
(* The reverse-dependents query.                                           *)
(***************************************************************************)
QueryServed == req.op = "GetRoadmapDependents" /\ req.id # ""

Occurrences(seq, e) == Cardinality({k \in DOMAIN seq : seq[k] = e})

\* The declared dependencies that are edges of roadmap T: declared outside
\* T and naming T's ID or T's name.
EdgesOf(T) ==
    {k \in DOMAIN Declared :
        /\ Declared[k].rm.ID # T
        /\ \/ Declared[k].dep.RoadmapID = T
           \/ \E i \in WithID(T) : Declared[k].dep.RoadmapName = Corpus[i].Roadmap.Name}

EdgeOf(k) ==
    [RoadmapID |-> Declared[k].rm.ID, RoadmapName |-> Declared[k].rm.Roadmap.Name,
     ItemID |-> Declared[k].item.ID, ItemName |-> Declared[k].item.Name,
     DependsOn |-> Declared[k].dep.ItemID]

\* C6: for a stored roadmap T, GetExternalDependents returns one edge for
\* each external dependency declared outside T whose target ID is T or
\* whose target name is T's name, and nothing else; dependencies declared
\* inside T give no edge.
C6_ExactlyTheEdges ==
    (QueryServed /\ req.id \in DOMAIN meta) =>
        /\ Len(dependents) = Cardinality(EdgesOf(req.id))
        /\ \A k \in EdgesOf(req.id) :
               Occurrences(dependents, EdgeOf(k)) =
                   Cardinality({m \in EdgesOf(req.id) : EdgeOf(m) = EdgeOf(k)})
        /\ \A n \in DOMAIN dependents : dependents[n].RoadmapID # req.id
        /\ resp.status = StatusOK /\ resp.body.dependents = dependents

\* A query for a roadmap that references itself and is referenced from
\* another roadmap: the edges returned are the other roadmap's only.
C6_Witness ==
    /\ QueryServed /\ req.id \in DOMAIN meta
    /\ \E k \in DOMAIN Declared :
          /\ Declared[k].rm.ID = req.id
          /\ \/ Declared[k].dep.RoadmapID = req.id
             \/ Declared[k].dep.RoadmapName = meta[req.id].Roadmap.Name
    /\ dependents # <<>>

\* C7: GetExternalDependents for an ID that no roadmap of the corpus bears
\* returns nothing, whatever the corpus declares.
C7_UnknownIDNoEdges ==
    (QueryServed /\ req.id \notin DOMAIN meta) => dependents = <<>>

\* A query for an ID that is not stored although a stored roadmap declares
\* an external dependency on that very ID.
C7_Witness ==
    /\ QueryServed /\ req.id \notin DOMAIN meta
    /\ \E k \in DOMAIN Declared : Declared[k].dep.RoadmapID = req.id
    /\ dependents = <<>>

\* C8 (as claimed): the caller of GET /api/roadmaps/{id}/dependents gets an
\* empty dependents list, not an error, for an ID that is not stored.
C8_UnknownIDEmptyList ==
    (QueryServed /\ req.id \notin DOMAIN meta) =>
        /\ resp.status = StatusOK
        /\ resp.error = Nil

\* C8 (amended): the caller of GET /api/roadmaps/{id}/dependents gets the
\* error response 404 "Roadmap not found" for an ID that is not stored; the
\* empty list the query computed is not sent.
C8_UnknownIDNotFound ==
    (QueryServed /\ req.id \notin DOMAIN meta) =>
        /\ resp.status = StatusNotFound
        /\ resp.error = "Roadmap not found"
        /\ resp.body = <<>>

\* A dependents request for an ID that is not stored, in a corpus that is
\* not empty.
C8_Witness ==
    /\ QueryServed /\ req.id \notin DOMAIN meta
    /\ DOMAIN meta # {}
    /\ resp.status = StatusNotFound

(***************************************************************************)
(* Ingestion: what reaches the corpus.                                     *)
(***************************************************************************)
Uploaded == req.op \in {"CreateRoadmap", "CreateMultipleRoadmaps"}
\* The documents of the uploaded body, in order.
UploadedDocs == IF req.op = "CreateRoadmap" THEN <<req.body>> ELSE req.body
Rejected ==
    resp.status = StatusBadRequest /\ resp.error # Nil /\ resp.body = <<>>

\* C11: whatever uploads (single or batch) and deletes were served, every
\* roadmap List returns, which is every roadmap a validation pass or a
\* dependents query is handed, has pairwise distinct item IDs; an upload
\* with a document that repeats an item ID is rejected.
C11_DistinctItemIDs ==
    /\ \A i \in DOMAIN Corpus : ItemIDsDistinct(Corpus[i].Roadmap)
    /\ (req.op = "ListRoadmaps" /\ resp.status = StatusOK) =>
           \A i \in DOMAIN resp.body : ItemIDsDistinct(resp.body[i].Roadmap)
    /\ (Uploaded /\ \E n \in DOMAIN UploadedDocs :
                        UploadedDocs[n].yaml /\ ~ItemIDsDistinct(UploadedDocs[n].roadmap))
           => Rejected

\* A rejected upload of a document whose one fault is a repeated item ID,
\* into a corpus that holds roadmaps of several items.
C11_Witness ==
    /\ Uploaded /\ Rejected
    /\ \E n \in DOMAIN UploadedDocs :
          /\ UploadedDocs[n].yaml
          /\ ~ItemIDsDistinct(UploadedDocs[n].roadmap)
          /\ InternalDepsResolve(UploadedDocs[n].roadmap)
    /\ \E i \in DOMAIN Corpus : Len(Corpus[i].Roadmap.Items) >= 2

\* C12: whatever uploads and deletes were served, in every stored roadmap
\* every ID among an item's dependencies is the ID of an item of the same
\* roadmap, so the resolver is never handed anything else; an upload with
\* a document that has an internal dependency on no item is rejected.
C12_InternalDepsResolve ==
    /\ \A i \in DOMAIN Corpus : InternalDepsResolve(Corpus[i].Roadmap)
    /\ \A id \in DOMAIN meta : InternalDepsResolve(meta[id].Roadmap)
    /\ (Uploaded /\ \E n \in DOMAIN UploadedDocs :
                        UploadedDocs[n].yaml /\ ~InternalDepsResolve(UploadedDocs[n].roadmap))
           => Rejected

\* A rejected upload of a document whose one fault is an internal
\* dependency on no item, into a corpus where an internal dependency is
\* stored.
C12_Witness ==
    /\ Uploaded /\ Rejected
    /\ \E n \in DOMAIN UploadedDocs :
          /\ UploadedDocs[n].yaml
          /\ ~InternalDepsResolve(UploadedDocs[n].roadmap)
          /\ ItemIDsDistinct(UploadedDocs[n].roadmap)
    /\ \E i \in DOMAIN Corpus : \E j \in DOMAIN Corpus[i].Roadmap.Items :
          Corpus[i].Roadmap.Items[j].Dependencies # <<>>

\* C13: an upload with a document that fails a validation rule is rejected
\* as a whole: the response is an error, uuid.New() hands out no ID (Create
\* is not called) and the files, hence the stored roadmaps, are as before.
C13_RejectedAsAWhole ==
    [][ (Uploaded' /\ \E n \in DOMAIN UploadedDocs' :
                          UploadedDocs'[n].yaml /\ ~WellFormed(UploadedDocs'[n].roadmap))
            => /\ Rejected'
               /\ used' = used
               /\ meta' = meta /\ yaml' = yaml
               /\ List(meta', 1) = List(meta, 1) ]_vars

\* A rejected batch upload whose first document passes validation and
\* whose second does not, with roadmaps stored.
C13_Witness ==
    /\ req.op = "CreateMultipleRoadmaps" /\ Rejected
    /\ Len(req.body) = 2
    /\ req.body[1].yaml /\ WellFormed(req.body[1].roadmap)
    /\ req.body[2].yaml /\ ~WellFormed(req.body[2].roadmap)
    /\ Corpus # <<>>

(***************************************************************************)
(* Roadmaps that share a name, edges to items that do not exist, and the   *)
(* order of the results of a pass.                                         *)
(***************************************************************************)
Greatest(S) == CHOOSE k \in S : \A m \in S : m <= k

\* C14: when several roadmaps of the corpus bear the name a by-name
\* external dependency declares, the dependency is judged against the last
\* of them in corpus order alone: it is valid exactly if that roadmap has
\* the target item, whatever the earlier ones of the name hold.
C14_LastOfNameDecides ==
    PassServed =>
        \A k \in Judged :
            LET d == Declared[k].dep
            IN  (d.RoadmapID = "" /\ Cardinality(Named(d.RoadmapName)) >= 2) =>
                    LET last == Corpus[Greatest(Named(d.RoadmapName))]
                    IN  /\ Results[k].Valid <=> d.ItemID \in ItemIDsOf(last)
                        /\ ~Results[k].Valid =>
                               Results[k].Error =
                                   "item '" \o d.ItemID \o "' not found in roadmap '"
                                   \o d.RoadmapName \o "'"

\* A pass over a by-name dependency on an item that an earlier roadmap of
\* the name has and the last roadmap of the name has not; judged invalid.
C14_Witness ==
    /\ PassServed
    /\ \E k \in Judged :
          LET d == Declared[k].dep
          IN  /\ d.RoadmapID = ""
              /\ \E i \in Named(d.RoadmapName) :
                    /\ i < Greatest(Named(d.RoadmapName))
                    /\ d.ItemID \in ItemIDsOf(Corpus[i])
              /\ d.ItemID \notin ItemIDsOf(Corpus[Greatest(Named(d.RoadmapName))])
              /\ ~Results[k].Valid

\* The edges of roadmap T whose target item T does not have.
EdgesToNoItem(T) ==
    {k \in EdgesOf(T) : \A i \in WithID(T) : Declared[k].dep.ItemID \notin ItemIDsOf(Corpus[i])}

\* C15: GetExternalDependents does not look for the target item: an
\* external dependency that matches the queried roadmap gives an edge that
\* carries the declared target item ID even if the queried roadmap has no
\* item of that ID.
C15_EdgeWithoutTargetItem ==
    (QueryServed /\ req.id \in DOMAIN meta) =>
        \A k \in EdgesToNoItem(req.id) :
            \E n \in DOMAIN dependents :
                /\ dependents[n] = EdgeOf(k)
                /\ dependents[n].DependsOn = Declared[k].dep.ItemID
                /\ \A j \in DOMAIN meta[req.id].Roadmap.Items :
                       meta[req.id].Roadmap.Items[j].ID # dependents[n].DependsOn

\* A query for a stored roadmap that has an edge to an item it has and an
\* edge to an item it does not have.
C15_Witness ==
    /\ QueryServed /\ req.id \in DOMAIN meta
    /\ EdgesToNoItem(req.id) # {}
    /\ EdgesOf(req.id) \ EdgesToNoItem(req.id) # {}
    /\ Len(dependents) >= 2

\* C16: the results of a pass follow the corpus list, within a roadmap the
\* declaration order of its items and within an item the declaration order
\* of its external dependencies: the k-th result is the one of the k-th
\* external dependency declared in that order, named by its source
\* "<roadmap name>:<item id>" and its target "<roadmap name>:<item id>".
C16_ResultsInDeclarationOrder ==
    PassServed =>
        /\ Len(Results) = Len(Declared)
        /\ \A k \in DOMAIN Declared :
               /\ Results[k].RoadmapItemID =
                      Declared[k].rm.Roadmap.Name \o ":" \o Declared[k].item.ID
               /\ Results[k].DependencyDesc =
                      Declared[k].dep.RoadmapName \o ":" \o Declared[k].dep.ItemID

\* A pass over a corpus in which two roadmaps declare external
\* dependencies, one of them on two items and twice on one item, and the
\* results read differently from first to last than from last to first.
C16_Witness ==
    /\ PassServed
    /\ Len(Results) >= 4
    /\ \E k \in DOMAIN Declared : Declared[k].rm.ID # Declared[1].rm.ID
    /\ \E k \in DOMAIN Declared : \E m \in DOMAIN Declared :
          /\ k < m /\ Declared[k].rm.ID = Declared[m].rm.ID
          /\ Declared[k].item.ID # Declared[m].item.ID
    /\ \E k \in DOMAIN Declared :
          /\ k + 1 \in DOMAIN Declared
          /\ Declared[k].rm.ID = Declared[k + 1].rm.ID
          /\ Declared[k].item.ID = Declared[k + 1].item.ID
          /\ Declared[k].dep # Declared[k + 1].dep
    /\ \E k \in DOMAIN Results : Results[k] # Results[Len(Results) + 1 - k]

Writing(g) == calls[g].op \in {"Create", "Delete"}
\* g is inside Get or List, between fs.mu.RLock() and the RUnlock.
Reading(g) ==
    /\ calls[g].op \in {"Get", "List"}
    /\ calls[g].pc \in {"readDir", "readFile", "return"}
\* The List of g has read its last file, or has returned.
ListRead(g) == calls[g].op = "List" /\ calls[g].pc \in {"return", "listed", "returned"}
\* A Create that has the ID and has not returned.
Creating(id) == \E h \in Goroutines : calls[h].op = "Create" /\ calls[h].id = id

\* C18: a List that runs next to Creates and Deletes returns the roadmaps
\* stored at one instant at which no Create or Delete was under way (the
\* instant it took the read lock): nothing in it comes from a Create that
\* has not returned, nothing stored from that instant to the return is
\* missing, and the pass of the handler gives what
\* ValidateExternalDependencies gives for that list, whatever has been
\* stored or deleted since.
C18_ListIsSnapshot ==
    \A g \in Goroutines :
        calls[g].op = "List" =>
            /\ \A n \in DOMAIN calls[g].listed : ~Creating(calls[g].listed[n].ID)
            /\ ListRead(g) => calls[g].listed = calls[g].snap
            /\ calls[g].pc = "return" =>
                   \A n \in DOMAIN calls[g].snap :
                       calls[g].snap[n].ID \in DOMAIN meta =>
                           \E k \in DOMAIN calls[g].listed :
                               calls[g].listed[k] = calls[g].snap[n]
            /\ calls[g].pc = "returned" =>
                   calls[g].out = ValidateExternalDependencies(calls[g].snap)

\* A pass that has answered from its list while the files have moved on:
\* a roadmap of the list is deleted, another one is stored, and a pass over
\* the files as they are now would answer differently.
C18_Witness ==
    \E g \in Goroutines :
        /\ calls[g].op = "List" /\ calls[g].pc = "returned"
        /\ \E n \in DOMAIN calls[g].listed : calls[g].listed[n].ID \notin DOMAIN meta
        /\ \E id \in DOMAIN meta :
              \A n \in DOMAIN calls[g].listed : calls[g].listed[n].ID # id
        /\ calls[g].out # ValidateExternalDependencies(Files(meta))
        /\ calls[g].out # <<>>

\* C19: fs.mu serializes Create and Delete: no two goroutines are inside
\* Create or Delete together, and none is inside Get or List while one is
\* inside Create or Delete; the mutex is held accordingly.  (Get and List
\* can be inside together.)
C19_WritersExclusive ==
    \A g \in Goroutines :
        /\ Writing(g) =>
               /\ mu.writer = g /\ mu.readers = {}
               /\ \A h \in Goroutines \ {g} : ~Writing(h) /\ ~Reading(h)
        /\ Reading(g) => mu.writer = 0 /\ g \in mu.readers

\* A Get and a List inside their reads together, on stored roadmaps.
C19_Witness ==
    \E g, h \in Goroutines :
        /\ g # h
        /\ Reading(g) /\ calls[g].op = "Get" /\ calls[g].out # <<>>
        /\ Reading(h) /\ calls[h].op = "List" /\ calls[h].listed # <<>>
        /\ mu.readers = {g, h}

\* C20: a stored roadmap does not change: from the Create that assigned its
\* RoadmapID to the Delete of that ID the metadata file unmarshals to the
\* roadmap Create was given, under that ID, and so does what every Get and
\* every List returns for that ID.
C20_StoredRoadmapImmutable ==
    /\ \A id \in DOMAIN meta :
           Unmarshal(meta[id]) = StoredRoadmap(id, created[id], "uploaded.yaml")
    /\ \A g \in Goroutines :
           /\ (calls[g].op = "Get" /\ calls[g].out # <<>>) =>
                  /\ calls[g].out[1].ID = calls[g].id
                  /\ calls[g].id \in DOMAIN created
                  /\ calls[g].out[1].Roadmap = created[calls[g].id]
           /\ calls[g].op = "List" =>
                  \A n \in DOMAIN calls[g].listed :
                      calls[g].listed[n].ID \in DOMAIN created =>
                          calls[g].listed[n].Roadmap = created[calls[g].listed[n].ID]

\* A Get returns the roadmap a List has returned, one with internal and
\* external dependencies and with fields left out of its file, and other
\* roadmaps have been stored and deleted.
C20_Witness ==
    \E g, h \in Goroutines :
        /\ calls[g].op = "Get" /\ calls[g].pc = "return" /\ calls[g].out # <<>>
        /\ calls[h].op = "List" /\ calls[h].pc = "listed"
        /\ \E n \in DOMAIN calls[h].listed : calls[h].listed[n] = calls[g].out[1]
        /\ \E j \in DOMAIN calls[g].out[1].Roadmap.Items :
              /\ calls[g].out[1].Roadmap.Items[j].Dependencies # <<>>
              /\ calls[g].out[1].Roadmap.Items[j].ExternalDependencies # <<>>
        /\ "dependencies" \notin
               DOMAIN meta[calls[g].id]["roadmap"]["items"][2]
        /\ used \ DOMAIN meta # {}
        /\ Cardinality(DOMAIN meta) >= 2

(***************************************************************************)
(* The identity of stored roadmaps.                                        *)
(***************************************************************************)
\* The IDs of the roadmaps List returns for the files m, in order.
ListedIDs(m) == [n \in DOMAIN List(m, 1) |-> List(m, 1)[n].ID]
\* The roadmaps a served upload has stored: one, or those of a batch.
StoredByUpload ==
    IF req.op = "CreateRoadmap" THEN <<resp.body>> ELSE resp.body.roadmaps

\* C21: whatever Creates (of single and batch uploads) and Deletes were
\* served, no two roadmaps List returns share an ID; an upload that
\* succeeds gives each of its roadmaps an ID no stored roadmap had and
\* lengthens the list by its roadmaps, every roadmap stored before staying
\* as it was, also when the uploaded roadmap bears the name of a stored one.
C21_UniqueIDsNotNames ==
    [][ /\ \A i, j \in DOMAIN ListedIDs(meta') :
               i # j => ListedIDs(meta')[i] # ListedIDs(meta')[j]
        /\ (Uploaded' /\ resp'.status = StatusCreated) =>
               /\ \A n \in DOMAIN StoredByUpload' :
                      /\ StoredByUpload'[n].ID \notin DOMAIN meta
                      /\ \A k \in DOMAIN ListedIDs(meta) :
                             ListedIDs(meta)[k] # StoredByUpload'[n].ID
                      /\ Get(meta', StoredByUpload'[n].ID).stored = <<StoredByUpload'[n]>>
               /\ Len(List(meta', 1)) = Len(List(meta, 1)) + Len(StoredByUpload')
               /\ \A id \in DOMAIN meta : Get(meta', id) = Get(meta, id) ]_vars

\* A single upload has stored a roadmap under the name of a roadmap that
\* was stored before, and List returns both.
C21_Witness ==
    /\ req.op = "CreateRoadmap" /\ resp.status = StatusCreated
    /\ \E i, j \in DOMAIN Corpus :
          /\ i # j
          /\ Corpus[i].ID = resp.body.ID
          /\ Corpus[j].Roadmap.Name = resp.body.Roadmap.Name
    /\ used \ DOMAIN meta # {}

(***************************************************************************)
(* What the resolver and the reverse query leave behind.                   *)
(***************************************************************************)
Query == {"ValidateDependencies", "GetRoadmapDependents"}

DependsOnItem(r, i, j) ==
    \E n \in DOMAIN r.Items[i].Dependencies : r.Items[i].Dependencies[n] = r.Items[j].ID
\* An item of r depends on itself, or two items of r depend on each other.
SelfDependent(r) == \E i \in DOMAIN r.Items : DependsOnItem(r, i, i)
MutuallyDependent(r) ==
    \E i, j \in DOMAIN r.Items : i # j /\ DependsOnItem(r, i, j) /\ DependsOnItem(r, j, i)
\* The k-th and the m-th declared external dependency form a cycle of two:
\* each is declared by the item the other one resolves to, in another
\* roadmap.
ExternalCycle(k, m) ==
    /\ Declared[k].rm.ID # Declared[m].rm.ID
    /\ \E i \in Resolved(Declared[k].dep) :
          /\ Corpus[i].ID = Declared[m].rm.ID
          /\ Declared[k].dep.ItemID = Declared[m].item.ID
    /\ \E i \in Resolved(Declared[m].dep) :
          /\ Corpus[i].ID = Declared[k].rm.ID
          /\ Declared[m].dep.ItemID = Declared[k].item.ID

\* C23: an upload whose document meets every rule of section 4.1 is stored
\* also when an item depends on itself or two items depend on each other,
\* so such roadmaps are in the corpus; and a pass judges two external
\* dependencies that form a cycle between two roadmaps valid, both.
C23_CyclesAccepted ==
    /\ (req.op = "CreateRoadmap" /\ req.body.yaml /\ WellFormed(req.body.roadmap)
          /\ (SelfDependent(req.body.roadmap) \/ MutuallyDependent(req.body.roadmap)))
           => /\ resp.status = StatusCreated
              /\ resp.body.ID \in DOMAIN meta
              /\ meta[resp.body.ID].Roadmap = req.body.roadmap
    /\ PassServed =>
           \A k, m \in Judged :
               ExternalCycle(k, m) => Results[k].Valid /\ Results[m].Valid

\* A pass over a corpus that holds a roadmap with an item that depends on
\* itself and with two items that depend on each other, and two external
\* dependencies that form a cycle between two roadmaps.
C23_Witness ==
    /\ PassServed
    /\ \E i \in DOMAIN Corpus :
          SelfDependent(Corpus[i].Roadmap) /\ MutuallyDependent(Corpus[i].Roadmap)
    /\ \E k, m \in Judged : ExternalCycle(k, m) /\ Results[k].Valid /\ Results[m].Valid

(***************************************************************************)
(* The resolver and the reverse query on the same corpus.                  *)
(***************************************************************************)
\* The pass found a target roadmap for its k-th dependency: the result is
\* valid, or the error is the one about the item.
FoundRoadmap(k) ==
    \/ Results[k].Valid
    \/ /\ Results[k].Error # "roadmap with ID '" \o Declared[k].dep.RoadmapID \o "' not found"
       /\ Results[k].Error # "roadmap named '" \o Declared[k].dep.RoadmapName \o "' not found"

\* C24: a dependents query that follows a pass over the same corpus, for a
\* roadmap T: every external dependency for which the pass found T as the
\* target roadmap and which a roadmap other than T declares is among the
\* edges returned, with the declaring roadmap and item and the target item
\* ID.
C24_ResolvedIsDependent ==
    [][ (PassServed /\ req'.op = "GetRoadmapDependents" /\ req'.id # "") =>
            \A k \in Judged :
                (/\ FoundRoadmap(k)
                 /\ \E i \in Resolved(Declared[k].dep) : Corpus[i].ID = req'.id
                 /\ Declared[k].rm.ID # req'.id)
                    => /\ resp'.status = StatusOK
                       /\ \E n \in DOMAIN resp'.body.dependents :
                              resp'.body.dependents[n] = EdgeOf(k) ]_vars

\* A query for a roadmap that the pass before it, over the same corpus, has
\* found as the target of a dependency by name and of one by ID, one of the
\* two on an item the roadmap does not have.
C24_Witness ==
    /\ QueryServed /\ resp.status = StatusOK
    /\ \E k, m \in EdgesOf(req.id) :
          /\ Declared[k].dep.RoadmapID = "" /\ Declared[m].dep.RoadmapID = req.id
          /\ \E i \in Resolved(Declared[k].dep) : Corpus[i].ID = req.id
          /\ \E e \in {k, m} : Declared[e].dep.ItemID \notin ItemIDsOf(meta[req.id])
    /\ Len(dependents) >= 2

(***************************************************************************)
(* A dependents request next to Creates and Deletes.                       *)
(***************************************************************************)
\* g has the response of a dependents request in hand, a success.
DependentsSuccess(g) ==
    /\ calls[g].op = "Dependents" /\ calls[g].pc = "respond"
    /\ calls[g].response.status = StatusOK
\* The List of g's dependents request has returned.
Listed(g) == calls[g].op = "Dependents" /\ calls[g].pc \in {"listReturn", "get", "getReturn"}

BatchServed == req.op = "CreateMultipleRoadmaps"
\* The n-th document of a body parses and meets every rule of section 4.1.
GoodDocument(body, n) == body[n].yaml /\ WellFormed(body[n].roadmap)

\* C26: a batch upload whose body holds no document, or a document that
\* does not parse or that fails validation, wherever in the body, is
\* answered 400, calls Create for none of its documents (uuid.New() hands
\* out no ID) and leaves every file, hence what List and Get return, as it
\* was; so a batch upload that stores anything has validated all its
\* documents.
C26_BatchValidatedBeforeStored ==
    [][ BatchServed' =>
          /\ (req'.body = <<>> \/ \E n \in DOMAIN req'.body : ~GoodDocument(req'.body, n))
                => /\ resp'.status = StatusBadRequest
                   /\ resp'.body = <<>>
                   /\ used' = used
                   /\ meta' = meta /\ yaml' = yaml
                   /\ List(meta', 1) = List(meta, 1)
                   /\ \A id \in RoadmapIDs : Get(meta', id) = Get(meta, id)
          /\ (meta' # meta \/ yaml' # yaml \/ used' # used)
                => \A n \in DOMAIN req'.body : GoodDocument(req'.body, n) ]_vars

\* A batch upload whose second document is no YAML behind a first one that
\* passes validation has been answered 400, with roadmaps stored.
C26_Witness ==
    /\ BatchServed /\ resp.status = StatusBadRequest
    /\ Len(req.body) = 2
    /\ GoodDocument(req.body, 1)
    /\ ~req.body[2].yaml
    /\ Corpus # <<>>

\* The text of the 500 response when the Create of the k-th roadmap of the
\* body fails.
FailedToStore(body, k) ==
    "Failed to store roadmap " \o ToString(k) \o " (" \o body[k].roadmap.Name
    \o "): " \o WriteFailed

\* C27: a batch upload whose Create of the k-th roadmap fails is answered
\* 500 with that roadmap's number and name; the k-1 roadmaps ahead of it
\* are in the corpus, each under its own new ID with its part file name,
\* the k-th and those behind it are not, and every roadmap stored before
\* the request is as it was.
C27_StoredPrefixStays ==
    [][ (BatchServed' /\ resp'.status = StatusInternalServerError) =>
          \E k \in DOMAIN req'.body :
              LET new == DOMAIN meta' \ DOMAIN meta
              IN  /\ resp'.error = FailedToStore(req'.body, k)
                  /\ resp'.body = <<>>
                  /\ Cardinality(new) = k - 1
                  /\ \A i \in 1..(k - 1) :
                         \E id \in new :
                             meta'[id] = StoredRoadmap(id, req'.body[i].roadmap,
                                                       PartFileName(i))
                  /\ Len(List(meta', 1)) = Len(List(meta, 1)) + k - 1
                  /\ \A id \in DOMAIN meta : Get(meta', id) = Get(meta, id)
                  /\ yaml' = yaml \cup new ]_vars

\* A batch upload of two roadmaps has been answered 500 for the second; the
\* first is stored, next to a roadmap stored before.
C27_Witness ==
    /\ BatchServed /\ resp.status = StatusInternalServerError
    /\ Len(req.body) = 2
    /\ resp.error = FailedToStore(req.body, 2)
    /\ \E id \in DOMAIN meta :
          /\ meta[id].Roadmap = req.body[1].roadmap
          /\ meta[id].FileName = PartFileName(1)
    /\ \E id \in DOMAIN meta : meta[id].FileName = "uploaded.yaml"

(***************************************************************************)
(* FileStorage on a file system that may fail                              *)
(***************************************************************************)
\* The request just served is a Create that returned an error.
CreateFailed == req.op = "Create" /\ resp.err # Nil

Without(list, id) == SelectSeq(list, LAMBDA s : s.ID # id)

\* The request just served is a Delete that returned no error.
Deleted == req.op = "Delete" /\ resp.err = Nil

Kept == DOMAIN created \ removed

\* What Create returned for a roadmap it stored under id.
Returned(id) == StoredRoadmap(id, created[id], "uploaded.yaml")

\* The request just served is a Create that returned a roadmap.
Created == req.op = "Create" /\ resp.err = Nil

\* After every call: Get of the ID of each roadmap Create has returned and
\* Delete has not removed gives that roadmap as Create returned it, and List
\* has it at exactly one place.
KeptIsStored ==
    LET list == ListOf(meta).out
    IN  \A id \in Kept :
           /\ GetOf(meta, id) = [out |-> <<Returned(id)>>, err |-> Nil]
           /\ Cardinality({n \in DOMAIN list : list[n].ID = id}) = 1
           /\ \E n \in DOMAIN list : list[n] = Returned(id)

\* C30: after every call each roadmap Create has returned and Delete has
\* not removed is what Get of its ID gives and is once in what List gives;
\* a Get and a List that are served answer so; a Create that returns a
\* roadmap returns it under a new ID with the roadmap it was given, List is
\* afterwards one longer and without the new roadmap what it was, and Get of
\* every ID a caller held returns what it did.
C30_CreatedIsKept ==
    /\ []KeptIsStored
    /\ [][ /\ (req'.op = "Get" /\ req'.id \in Kept) =>
                 resp' = [out |-> <<Returned(req'.id)>>, err |-> Nil]
           /\ req'.op = "List" =>
                 /\ resp'.err = Nil
                 /\ \A id \in Kept :
                       Cardinality({n \in DOMAIN resp'.out :
                                       resp'.out[n] = Returned(id)}) = 1
           /\ Created' =>
                 /\ req'.id \notin used
                 /\ resp'.out = <<StoredRoadmap(req'.id, req'.roadmap, "uploaded.yaml")>>
                 /\ created' = MapSet(created, req'.id, req'.roadmap)
                 /\ Len(ListOf(meta').out) = Len(ListOf(meta).out) + 1
                 /\ Without(ListOf(meta').out, req'.id) = ListOf(meta).out
                 /\ \A id \in CallerIDs : GetOf(meta', id) = GetOf(meta, id) ]_vars

\* A List has returned the two roadmaps Create returned, both of the same
\* content, while the cut-short metadata file of a failed Create lies in the
\* directory ahead of the second.
C30_Witness ==
    /\ req.op = "List" /\ Len(resp.out) = 2
    /\ resp.out[1].Roadmap = resp.out[2].Roadmap
    /\ {resp.out[1].ID, resp.out[2].ID} = Kept
    /\ \E i \in 1..(MaxIDs - 1) :
          /\ IDAt(i) \in DOMAIN meta /\ meta[IDAt(i)] = Truncated
          /\ resp.out[2].ID = IDAt(MaxIDs)

====
